---- MODULE Spec2Model ----
(***************************************************************************)
(* Verification model of the Rubik's cube solver: the cube (54 stickers,   *)
(* 18 move operators, inverse algebra, heuristic) and the search backends  *)
(* (sequential iterative deepening, IDA*, OpenMP, MPI, hybrid), and the    *)
(* HTTP server that holds one cube and runs the backends on request.       *)
(*                                                                         *)
(* A sticker is a one-character string, a move token is a sequence of      *)
(* characters (<<"U">>, <<"U", "'">>, <<"U", "2">>), a cube is the array   *)
(* faces_[0..5][0..8] of the source.                                       *)
(***************************************************************************)
EXTENDS Integers, Sequences, FiniteSets, TLC

VARIABLES
    faces_,       \* RubiksCube::faces_ of the cube under test
    start,        \* the cube as it was constructed (before any applyMove)
    applied,      \* the moves applied to faces_ since construction, in order
    undone,       \* how many of the applied moves have been undone again
    seq,          \* the SequentialSolver::solve call made on the cube (SpecSolve)
    slv,          \* the solve call of another backend on a copy of its input
    omp,          \* OpenMPSolver::solve call in progress, thread by thread (SpecOMP)
    http,         \* the last request the HTTP server handled, and its response
    scr,          \* RubiksCube::scramble call in progress (SpecScramble)
    obj,          \* a solver object that solve() is called on repeatedly (SpecReuse)
    hyb,          \* one rank of HybridSolver::solve, thread by thread (SpecTeams)
    mpi           \* the processes of an MPI run, collective by collective (SpecMPI)

vars == <<faces_, start, applied, undone, seq, slv, omp, http, scr, obj, hyb, mpi>>

(***************************************************************************)
(* Bounds of the model.                                                    *)
(***************************************************************************)
MaxMoves == 3        \* applyMove calls per cube in Spec
MaxScramble == 2     \* scramble moves before a solve in SpecSolve
MaxSolveDepth == 3   \* largest maxDepth handed to solve()
MaxRanks == 2        \* largest MPI communicator size
MaxThreads == 2      \* largest OpenMP thread count
MaxFuel == 1         \* most reads of a set solutionFound_ that still return false

(***************************************************************************)
(* rubiks_cube.hpp: enum Face.                                             *)
(***************************************************************************)
UP == 0
DOWN == 1
FRONT == 2
BACK == 3
LEFT == 4
RIGHT == 5

INT_MAX == 2147483647

Faces == 0..5
Positions == 0..8

(***************************************************************************)
(* RubiksCube::reset: the solved colouring.                                *)
(***************************************************************************)
reset ==
    [f \in Faces |->
        [i \in Positions |->
            CASE f = UP -> "W"
              [] f = DOWN -> "Y"
              [] f = FRONT -> "G"
              [] f = BACK -> "B"
              [] f = LEFT -> "O"
              [] f = RIGHT -> "R"]]

(***************************************************************************)
(* A cube whose 54 stickers are pairwise different characters, as the      *)
(* string constructor builds it from a 54-character string: it tracks      *)
(* every sticker individually.                                             *)
(***************************************************************************)
LabelChars ==
    << "a", "b", "c", "d", "e", "f", "g", "h", "i",
       "j", "k", "l", "m", "n", "o", "p", "q", "r",
       "s", "t", "u", "v", "w", "x", "y", "z", "0",
       "1", "2", "3", "4", "5", "6", "7", "8", "9",
       "A", "C", "D", "E", "F", "H", "I", "J", "K",
       "L", "M", "N", "P", "Q", "S", "T", "V", "X" >>

\* Mutant of fromString: each face is filled column by column.
fromString_ColumnMajor(state) ==
    [f \in Faces |-> [i \in Positions |-> state[9 * f + 3 * (i % 3) + (i \div 3) + 1]]]

(***************************************************************************)
(* RubiksCube::fromString on a 54-character string (given as a sequence of *)
(* characters): sticker i of face f is character 9*f + i.                  *)
(***************************************************************************)
fromString(state) ==
    [f \in Faces |-> [i \in Positions |-> state[9 * f + i + 1]]]

LabelledCube == fromString(LabelChars)

(***************************************************************************)
(* RubiksCube::isSolved.                                                   *)
(***************************************************************************)
\* Mutant of isSolved: each sticker is compared with the first of its row.
isSolved_RowsOnly(c) ==
    \A f \in Faces : \A i \in Positions : c[f][i] = c[f][3 * (i \div 3)]

isSolved(c) ==
    \A f \in Faces : \A i \in Positions : c[f][i] = c[f][4]

(***************************************************************************)
(* RubiksCube::rotateFaceClockwise / rotateFaceCounterClockwise.           *)
(***************************************************************************)
\* Mutant of rotateFaceClockwise: the centre takes the sticker of position 1.
rotateFaceClockwise_MovesCentre(c, face) ==
    [c EXCEPT ![face] = [i \in Positions |-> IF i = 4 THEN c[face][1] ELSE c[face][i]]]

rotateFaceClockwise(c, face) ==
    LET temp == c[face] IN
    [c EXCEPT ![face] =
        [i \in Positions |->
            CASE i = 0 -> temp[6] [] i = 1 -> temp[3] [] i = 2 -> temp[0]
              [] i = 3 -> temp[7] [] i = 4 -> temp[4] [] i = 5 -> temp[1]
              [] i = 6 -> temp[8] [] i = 7 -> temp[5] [] i = 8 -> temp[2]]]

rotateFaceCounterClockwise(c, face) ==
    LET temp == c[face] IN
    [c EXCEPT ![face] =
        [i \in Positions |->
            CASE i = 0 -> temp[2] [] i = 1 -> temp[5] [] i = 2 -> temp[8]
              [] i = 3 -> temp[1] [] i = 4 -> temp[4] [] i = 5 -> temp[7]
              [] i = 6 -> temp[0] [] i = 7 -> temp[3] [] i = 8 -> temp[6]]]

(***************************************************************************)
(* RubiksCube::rotateEdgesClockwise: the temporaries, then the four blocks *)
(* of three assignments in the order of the source (f1 <- f4, f4 <- f3,    *)
(* f3 <- f2, f2 <- temp).  e1..e4 are the index triples <<a, b, c>>.       *)
(***************************************************************************)
\* one block: faces_[fd][ed...] = faces_[fs][es...], read from the cube as it
\* is when the block starts
assignEdge(c, fd, ed, fs, es) ==
    [c EXCEPT ![fd][ed[1]] = c[fs][es[1]],
              ![fd][ed[2]] = c[fs][es[2]],
              ![fd][ed[3]] = c[fs][es[3]]]

\* Mutant of storeEdge: the saved stickers are not written back.
storeEdge_Dropped(c, fd, ed, temp) ==
    c

\* the last block: faces_[fd][ed...] = temp1, temp2, temp3
storeEdge(c, fd, ed, temp) ==
    [c EXCEPT ![fd][ed[1]] = temp[1],
              ![fd][ed[2]] = temp[2],
              ![fd][ed[3]] = temp[3]]

rotateEdgesClockwise(c, f1, e1, f2, e2, f3, e3, f4, e4) ==
    storeEdge(
        assignEdge(assignEdge(assignEdge(c, f1, e1, f4, e4), f4, e4, f3, e3),
                   f3, e3, f2, e2),
        f2, e2, <<c[f1][e1[1]], c[f1][e1[2]], c[f1][e1[3]]>>)

(***************************************************************************)
(* The 18 move operators.                                                  *)
(***************************************************************************)
moveU(c) ==
    rotateEdgesClockwise(rotateFaceClockwise(c, UP),
        FRONT, <<0, 1, 2>>, LEFT, <<0, 1, 2>>, BACK, <<0, 1, 2>>, RIGHT, <<0, 1, 2>>)

moveUPrime(c) ==
    rotateEdgesClockwise(rotateFaceCounterClockwise(c, UP),
        FRONT, <<0, 1, 2>>, RIGHT, <<0, 1, 2>>, BACK, <<0, 1, 2>>, LEFT, <<0, 1, 2>>)

moveU2(c) == moveU(moveU(c))

moveD(c) ==
    rotateEdgesClockwise(rotateFaceClockwise(c, DOWN),
        FRONT, <<6, 7, 8>>, RIGHT, <<6, 7, 8>>, BACK, <<6, 7, 8>>, LEFT, <<6, 7, 8>>)

moveDPrime(c) ==
    rotateEdgesClockwise(rotateFaceCounterClockwise(c, DOWN),
        FRONT, <<6, 7, 8>>, LEFT, <<6, 7, 8>>, BACK, <<6, 7, 8>>, RIGHT, <<6, 7, 8>>)

moveD2(c) == moveD(moveD(c))

moveF(c) ==
    rotateEdgesClockwise(rotateFaceClockwise(c, FRONT),
        UP, <<6, 7, 8>>, RIGHT, <<0, 3, 6>>, DOWN, <<2, 1, 0>>, LEFT, <<8, 5, 2>>)

moveFPrime(c) ==
    rotateEdgesClockwise(rotateFaceCounterClockwise(c, FRONT),
        UP, <<6, 7, 8>>, LEFT, <<8, 5, 2>>, DOWN, <<2, 1, 0>>, RIGHT, <<0, 3, 6>>)

moveF2(c) == moveF(moveF(c))

moveB(c) ==
    rotateEdgesClockwise(rotateFaceClockwise(c, BACK),
        UP, <<2, 1, 0>>, LEFT, <<0, 3, 6>>, DOWN, <<6, 7, 8>>, RIGHT, <<8, 5, 2>>)

moveBPrime(c) ==
    rotateEdgesClockwise(rotateFaceCounterClockwise(c, BACK),
        UP, <<2, 1, 0>>, RIGHT, <<8, 5, 2>>, DOWN, <<6, 7, 8>>, LEFT, <<0, 3, 6>>)

moveB2(c) == moveB(moveB(c))

moveL(c) ==
    rotateEdgesClockwise(rotateFaceClockwise(c, LEFT),
        UP, <<0, 3, 6>>, FRONT, <<0, 3, 6>>, DOWN, <<0, 3, 6>>, BACK, <<8, 5, 2>>)

moveLPrime(c) ==
    rotateEdgesClockwise(rotateFaceCounterClockwise(c, LEFT),
        UP, <<0, 3, 6>>, BACK, <<8, 5, 2>>, DOWN, <<0, 3, 6>>, FRONT, <<0, 3, 6>>)

moveL2(c) == moveL(moveL(c))

moveR(c) ==
    rotateEdgesClockwise(rotateFaceClockwise(c, RIGHT),
        UP, <<8, 5, 2>>, BACK, <<0, 3, 6>>, DOWN, <<8, 5, 2>>, FRONT, <<8, 5, 2>>)

\* Mutant of moveRPrime: the edge cycle copied from moveR unchanged.
moveRPrime_EdgesOfMoveR(c) ==
    rotateEdgesClockwise(rotateFaceCounterClockwise(c, RIGHT),
        UP, <<8, 5, 2>>, BACK, <<0, 3, 6>>, DOWN, <<8, 5, 2>>, FRONT, <<8, 5, 2>>)

moveRPrime(c) ==
    rotateEdgesClockwise(rotateFaceCounterClockwise(c, RIGHT),
        UP, <<8, 5, 2>>, FRONT, <<8, 5, 2>>, DOWN, <<8, 5, 2>>, BACK, <<0, 3, 6>>)

moveR2(c) == moveR(moveR(c))

(***************************************************************************)
(* RubiksCube::getAllMoves and getBasicMoves, in the order of the source.  *)
(***************************************************************************)
getAllMoves ==
    << <<"U">>, <<"U", "'">>, <<"U", "2">>, <<"D">>, <<"D", "'">>, <<"D", "2">>,
       <<"F">>, <<"F", "'">>, <<"F", "2">>, <<"B">>, <<"B", "'">>, <<"B", "2">>,
       <<"L">>, <<"L", "'">>, <<"L", "2">>, <<"R">>, <<"R", "'">>, <<"R", "2">> >>

getBasicMoves ==
    << <<"U">>, <<"U", "'">>, <<"D">>, <<"D", "'">>, <<"F">>, <<"F", "'">>,
       <<"B">>, <<"B", "'">>, <<"L">>, <<"L", "'">>, <<"R">>, <<"R", "'">> >>

AllMoves == {getAllMoves[k] : k \in 1..Len(getAllMoves)}

(***************************************************************************)
(* RubiksCube::applyMove.  Any other token throws before a sticker is      *)
(* touched: the cube is returned as it was.                                *)
(***************************************************************************)
applyMove(c, move) ==
    CASE move = <<"U">> -> moveU(c)
      [] move = <<"U", "'">> -> moveUPrime(c)
      [] move = <<"U", "2">> -> moveU2(c)
      [] move = <<"D">> -> moveD(c)
      [] move = <<"D", "'">> -> moveDPrime(c)
      [] move = <<"D", "2">> -> moveD2(c)
      [] move = <<"F">> -> moveF(c)
      [] move = <<"F", "'">> -> moveFPrime(c)
      [] move = <<"F", "2">> -> moveF2(c)
      [] move = <<"B">> -> moveB(c)
      [] move = <<"B", "'">> -> moveBPrime(c)
      [] move = <<"B", "2">> -> moveB2(c)
      [] move = <<"L">> -> moveL(c)
      [] move = <<"L", "'">> -> moveLPrime(c)
      [] move = <<"L", "2">> -> moveL2(c)
      [] move = <<"R">> -> moveR(c)
      [] move = <<"R", "'">> -> moveRPrime(c)
      [] move = <<"R", "2">> -> moveR2(c)
      [] OTHER -> c

(***************************************************************************)
(* RubiksCube::applyMoves.                                                 *)
(***************************************************************************)
RECURSIVE applyMoves(_, _)
applyMoves(c, moves) ==
    IF moves = <<>> THEN c
    ELSE applyMoves(applyMove(c, Head(moves)), Tail(moves))

\* Mutant of getInverseMove: the half-turn case is missing.
getInverseMove_NoHalfTurn(move) ==
    IF Len(move) = 2 /\ move[2] = "'" THEN <<move[1]>>
    ELSE move \o <<"'">>

(***************************************************************************)
(* RubiksCube::getInverseMove.                                             *)
(***************************************************************************)
getInverseMove(move) ==
    IF Len(move) = 2 /\ move[2] = "'" THEN <<move[1]>>
    ELSE IF Len(move) = 2 /\ move[2] = "2" THEN move
    ELSE move \o <<"'">>

(***************************************************************************)
(* RubiksCube::getManhattanDistance.                                       *)
(***************************************************************************)
Misplaced(c) ==
    {p \in Faces \X Positions : p[2] # 4 /\ c[p[1]][p[2]] # c[p[1]][4]}

getManhattanDistance(c) == Cardinality(Misplaced(c)) \div 8


(***************************************************************************)
(* isRedundantMove.  The source has five copies of it (IDAStarSolver,      *)
(* SequentialSolver, OpenMPSolver, MPISolver, HybridSolver) with the same  *)
(* conditions; the empty sequence is the empty string of the root ply.     *)
(***************************************************************************)
\* Mutant of isRedundantMove: only a move on the same face is skipped.
isRedundantMove_SameFaceOnly(lastMove, nextMove) ==
    IF lastMove = <<>> THEN FALSE
    ELSE lastMove[1] = nextMove[1]

isRedundantMove(lastMove, nextMove) ==
    IF lastMove = <<>> THEN FALSE
    ELSE LET lastFace == lastMove[1]
             nextFace == nextMove[1]
         IN  \/ lastFace = nextFace
             \/ (lastFace = "U" /\ nextFace = "D") \/ (lastFace = "D" /\ nextFace = "U")
             \/ (lastFace = "L" /\ nextFace = "R") \/ (lastFace = "R" /\ nextFace = "L")
             \/ (lastFace = "F" /\ nextFace = "B") \/ (lastFace = "B" /\ nextFace = "F")

(***************************************************************************)
(* heuristic() of every solver: cube.getManhattanDistance().               *)
(***************************************************************************)
\* Mutant of heuristic: twice the estimate.
heuristic_Doubled(c) == 2 * getManhattanDistance(c)

heuristic(c) == getManhattanDistance(c)

\* Mutant of pop_back: the move of a failed branch stays on the path.
pop_back_KeepsLast(path) == path

\* std::vector::pop_back of the path after a failed branch
pop_back(path) == SubSeq(path, 1, Len(path) - 1)

(***************************************************************************)
(* SequentialSolver.  `st` holds the cube passed by reference and the      *)
(* members the search reads and writes:                                    *)
(*   [cube, solution_, currentPath_, maxDepth_, nodesExplored_].           *)
(* A search returns [ret, st]: the value returned and the state it leaves. *)
(* The loop state is [done, ret, st, depth, lastMove].                     *)
(* The 60 s wall-clock limit of solve() is not modelled: the searches of   *)
(* the model visit at most a few thousand nodes.                           *)
(***************************************************************************)
RECURSIVE SequentialSolver_search(_, _, _)
RECURSIVE SequentialSolver_searchBody(_, _)
RECURSIVE SequentialSolver_searchLoop(_, _, _)

\* SequentialSolver::search, what the call returns once the loop is over
SequentialSolver_searchReturn(s) == [ret |-> s.ret, st |-> s.st]

\* SequentialSolver::search, lines 89-127
SequentialSolver_search(st, depth, lastMove) ==
    LET st1 == [st EXCEPT !.nodesExplored_ = @ + 1] IN
    IF isSolved(st1.cube)
    THEN [ret |-> TRUE, st |-> [st1 EXCEPT !.solution_ = st1.currentPath_]]
    ELSE IF depth >= st1.maxDepth_
    THEN [ret |-> FALSE, st |-> st1]
    ELSE SequentialSolver_searchReturn(
             SequentialSolver_searchLoop(
                 [done |-> FALSE, ret |-> FALSE, st |-> st1,
                  depth |-> depth, lastMove |-> lastMove],
                 1, Len(getBasicMoves)))

\* SequentialSolver::search, the loop of lines 110-124: the passes for
\* moves[lo .. hi] from loop state s, in order; a pass that sets s.done has
\* returned
SequentialSolver_searchLoop(s, lo, hi) ==
    IF s.done THEN s
    ELSE IF lo = hi THEN SequentialSolver_searchBody(s, getBasicMoves[lo])
    ELSE LET mid == (lo + hi) \div 2
             first == SequentialSolver_searchLoop(s, lo, mid)
         IN  SequentialSolver_searchLoop(first, mid + 1, hi)

\* SequentialSolver::search, lines 118-123 of the loop body: r is what the
\* recursive call returned
SequentialSolver_searchChild(s, move, r) ==
    IF r.ret
    THEN [s EXCEPT !.done = TRUE, !.ret = TRUE, !.st = r.st]
    ELSE [s EXCEPT !.st =
             [r.st EXCEPT !.currentPath_ = pop_back(@),
                          !.cube = applyMove(@, getInverseMove(move))]]

\* SequentialSolver::search, the loop body of lines 110-124
SequentialSolver_searchBody(s, move) ==
    IF isRedundantMove(s.lastMove, move) THEN s
    ELSE SequentialSolver_searchChild(s, move,
             SequentialSolver_search(
                 [s.st EXCEPT !.cube = applyMove(@, move),
                              !.currentPath_ = Append(@, move)],
                 s.depth + 1, move))

RECURSIVE SequentialSolver_deepen(_, _, _)

\* SequentialSolver::solve, lines 36-56 of the loop: r is what search returned
SequentialSolver_deepenNext(r, depth, maxDepth) ==
    IF r.ret THEN r
    ELSE SequentialSolver_deepen(r.st, depth + 1, maxDepth)

\* SequentialSolver::solve, the loop of lines 28-60 from `depth` on
SequentialSolver_deepen(st, depth, maxDepth) ==
    IF depth > maxDepth THEN [ret |-> FALSE, st |-> st]
    ELSE SequentialSolver_deepenNext(
             SequentialSolver_search(
                 [st EXCEPT !.maxDepth_ = depth, !.currentPath_ = <<>>], 0, <<>>),
             depth, maxDepth)

\* SequentialSolver::solve, what the call returns after the loop:
\* [ret: the returned path, cube: the caller's cube afterwards, nodesExplored_]
SequentialSolver_solveReturn(r) ==
    [ret |-> IF r.ret THEN r.st.solution_ ELSE <<>>,
     cube |-> r.st.cube,
     nodesExplored_ |-> r.st.nodesExplored_]

\* Mutant of SequentialSolver_solve: the already-solved check is missing.
SequentialSolver_solve_NoSolvedCheck(cube, maxDepth) ==
    SequentialSolver_solveReturn(
        SequentialSolver_deepen(
            [cube |-> cube, solution_ |-> <<>>, currentPath_ |-> <<>>,
             maxDepth_ |-> maxDepth, nodesExplored_ |-> 0], 1, maxDepth))

\* SequentialSolver::solve on a newly constructed solver (nodesExplored_ = 0)
SequentialSolver_solve(cube, maxDepth) ==
    IF isSolved(cube)
    THEN [ret |-> <<>>, cube |-> cube, nodesExplored_ |-> 0]
    ELSE SequentialSolver_solveReturn(
             SequentialSolver_deepen(
                 [cube |-> cube, solution_ |-> <<>>, currentPath_ |-> <<>>,
                  maxDepth_ |-> maxDepth, nodesExplored_ |-> 0], 1, maxDepth))

(***************************************************************************)
(* IDAStarSolver.  st = [cube, solution_, currentPath_, nodesExplored_];   *)
(* loop state [done, ret, st, g, bound, lastMove, min].                    *)
(***************************************************************************)
RECURSIVE IDAStarSolver_search(_, _, _, _)
RECURSIVE IDAStarSolver_searchBody(_, _)
RECURSIVE IDAStarSolver_searchLoop(_, _, _)

\* IDAStarSolver::search, what the call returns once the loop is over: -1 from
\* the pass that found the solution, else min
IDAStarSolver_searchReturn(s) ==
    [ret |-> IF s.done THEN s.ret ELSE s.min, st |-> s.st]

\* IDAStarSolver::search, lines 56-101
IDAStarSolver_search(st, g, bound, lastMove) ==
    LET st1 == [st EXCEPT !.nodesExplored_ = @ + 1]
        f == g + heuristic(st1.cube)
    IN  IF f > bound THEN [ret |-> f, st |-> st1]
        ELSE IF isSolved(st1.cube)
        THEN [ret |-> -1, st |-> [st1 EXCEPT !.solution_ = st1.currentPath_]]
        ELSE IDAStarSolver_searchReturn(
                 IDAStarSolver_searchLoop(
                     [done |-> FALSE, ret |-> 0, st |-> st1, g |-> g,
                      bound |-> bound, lastMove |-> lastMove,
                      min |-> INT_MAX],
                     1, Len(getBasicMoves)))

\* IDAStarSolver::search, the loop of lines 75-98: the passes for
\* moves[lo .. hi] from loop state s, in order; a pass that sets s.done has
\* returned
IDAStarSolver_searchLoop(s, lo, hi) ==
    IF s.done THEN s
    ELSE IF lo = hi THEN IDAStarSolver_searchBody(s, getBasicMoves[lo])
    ELSE LET mid == (lo + hi) \div 2
             first == IDAStarSolver_searchLoop(s, lo, mid)
         IN  IDAStarSolver_searchLoop(first, mid + 1, hi)

\* Mutant of IDAStarSolver_searchChild: the move is not reverted on the cube.
IDAStarSolver_searchChild_NoRevert(s, move, r) ==
    IF r.ret = -1
    THEN [s EXCEPT !.done = TRUE, !.ret = -1, !.st = r.st]
    ELSE [s EXCEPT !.min = IF r.ret < @ THEN r.ret ELSE @,
                   !.st = [r.st EXCEPT !.currentPath_ = pop_back(@)]]

\* Mutant of IDAStarSolver_searchChild: min is the value of the last child,
\* not the least one.
IDAStarSolver_searchChild_LastValue(s, move, r) ==
    IF r.ret = -1
    THEN [s EXCEPT !.done = TRUE, !.ret = -1, !.st = r.st]
    ELSE [s EXCEPT !.min = r.ret,
                   !.st = [r.st EXCEPT
                              !.currentPath_ = pop_back(@),
                              !.cube = applyMove(@, getInverseMove(move))]]

\* IDAStarSolver::search, lines 87-97 of the loop body: r is what the
\* recursive call returned
IDAStarSolver_searchChild(s, move, r) ==
    IF r.ret = -1
    THEN [s EXCEPT !.done = TRUE, !.ret = -1, !.st = r.st]
    ELSE [s EXCEPT !.min = IF r.ret < @ THEN r.ret ELSE @,
                   !.st = [r.st EXCEPT
                              !.currentPath_ = pop_back(@),
                              !.cube = applyMove(@, getInverseMove(move))]]

\* IDAStarSolver::search, the loop body of lines 75-98
IDAStarSolver_searchBody(s, move) ==
    IF isRedundantMove(s.lastMove, move) THEN s
    ELSE IDAStarSolver_searchChild(s, move,
             IDAStarSolver_search(
                 [s.st EXCEPT !.cube = applyMove(@, move),
                              !.currentPath_ = Append(@, move)],
                 s.g + 1, s.bound, move))

RECURSIVE IDAStarSolver_iterate(_, _, _)

\* IDAStarSolver::solve, lines 28-45 of the loop: r is what search returned
IDAStarSolver_iterateNext(r, maxDepth) ==
    IF r.ret = -1 THEN [ret |-> r.st.solution_, st |-> r.st]
    ELSE IF r.ret = INT_MAX THEN [ret |-> <<>>, st |-> r.st]
    ELSE IDAStarSolver_iterate(r.st, r.ret, maxDepth)

\* Mutant of IDAStarSolver_iterate: the loop runs while threshold_ <= maxDepth + 1.
IDAStarSolver_iterate_OneMore(st, threshold_, maxDepth) ==
    IF threshold_ > maxDepth + 1 THEN [ret |-> <<>>, st |-> st]
    ELSE IDAStarSolver_iterateNext(
             IDAStarSolver_search(st, 0, threshold_, <<>>), maxDepth)

\* IDAStarSolver::solve, the loop of lines 25-47 at threshold_
IDAStarSolver_iterate(st, threshold_, maxDepth) ==
    IF threshold_ > maxDepth THEN [ret |-> <<>>, st |-> st]
    ELSE IDAStarSolver_iterateNext(
             IDAStarSolver_search(st, 0, threshold_, <<>>), maxDepth)

\* IDAStarSolver::solve, what the call returns after the loop
IDAStarSolver_solveReturn(r) ==
    [ret |-> r.ret, cube |-> r.st.cube, nodesExplored_ |-> r.st.nodesExplored_]

\* IDAStarSolver::solve on a newly constructed solver
IDAStarSolver_solve(cube, maxDepth) ==
    IF isSolved(cube)
    THEN [ret |-> <<>>, cube |-> cube, nodesExplored_ |-> 0]
    ELSE IDAStarSolver_solveReturn(
             IDAStarSolver_iterate(
                 [cube |-> cube, solution_ |-> <<>>, currentPath_ |-> <<>>,
                  nodesExplored_ |-> 0], heuristic(cube), maxDepth))

(***************************************************************************)
(* Helpers over finite sets and arrays of integers.                        *)
(***************************************************************************)
MinOf(S) == CHOOSE x \in S : \A y \in S : x <= y
MaxOf(S) == CHOOSE x \in S : \A y \in S : x >= y

RECURSIVE SumOver(_, _)
SumOver(n, S) ==
    IF S = {} THEN 0
    ELSE LET k == MinOf(S) IN n[k] + SumOver(n, S \ {k})

\* moves.size() of getBasicMoves(): the first-ply indices 0 .. 11
Branches == 0 .. (Len(getBasicMoves) - 1)

(***************************************************************************)
(* MPISolver.  A kernel state is [cube, path, nodesExplored_]: the local   *)
(* cube and path of the branch and the rank's node counter; the loop       *)
(* state is [done, ret, st, g, threshold, lastMove, min].                  *)
(* The 120 s wall-clock limit is not modelled.                             *)
(***************************************************************************)
RECURSIVE MPISolver_idaSearch(_, _, _, _)
RECURSIVE MPISolver_idaSearchBody(_, _)
RECURSIVE MPISolver_idaSearchLoop(_, _, _)

\* MPISolver::idaSearch, what the call returns once the loop is over: -1 from
\* the pass that found the solution, else min
MPISolver_idaSearchReturn(s) ==
    [ret |-> IF s.done THEN s.ret ELSE s.min, st |-> s.st]

\* MPISolver::idaSearch, lines 230-280
MPISolver_idaSearch(st, g, threshold, lastMove) ==
    LET st1 == [st EXCEPT !.nodesExplored_ = @ + 1]
        f == g + heuristic(st1.cube)
    IN  IF f > threshold THEN [ret |-> f, st |-> st1]
        ELSE IF isSolved(st1.cube)
        THEN [ret |-> -1, st |-> st1]
        ELSE MPISolver_idaSearchReturn(
                 MPISolver_idaSearchLoop(
                     [done |-> FALSE, ret |-> 0, st |-> st1, g |-> g,
                      threshold |-> threshold, lastMove |-> lastMove,
                      min |-> INT_MAX],
                     1, Len(getBasicMoves)))

\* MPISolver::idaSearch, the loop of lines 257-277: the passes for
\* moves[lo .. hi] from loop state s, in order; a pass that sets s.done has
\* returned
MPISolver_idaSearchLoop(s, lo, hi) ==
    IF s.done THEN s
    ELSE IF lo = hi THEN MPISolver_idaSearchBody(s, getBasicMoves[lo])
    ELSE LET mid == (lo + hi) \div 2
             first == MPISolver_idaSearchLoop(s, lo, mid)
         IN  MPISolver_idaSearchLoop(first, mid + 1, hi)

\* MPISolver::idaSearch, lines 267-276 of the loop body: r is what the
\* recursive call returned
MPISolver_idaSearchChild(s, move, r) ==
    IF r.ret = -1
    THEN [s EXCEPT !.done = TRUE, !.ret = -1, !.st = r.st]
    ELSE [s EXCEPT !.min = IF r.ret < @ THEN r.ret ELSE @,
                   !.st = [r.st EXCEPT
                              !.path = pop_back(@),
                              !.cube = applyMove(@, getInverseMove(move))]]

\* MPISolver::idaSearch, the loop body of lines 257-277
MPISolver_idaSearchBody(s, move) ==
    IF isRedundantMove(s.lastMove, move) THEN s
    ELSE MPISolver_idaSearchChild(s, move,
             MPISolver_idaSearch(
                 [s.st EXCEPT !.cube = applyMove(@, move),
                              !.path = Append(@, move)],
                 s.g + 1, s.threshold, move))

RECURSIVE MPISolver_rankLoop(_, _, _, _, _)

\* MPISolver::solve, lines 104-115 of the rank's loop: r is what idaSearch
\* returned for index i
MPISolver_rankLoopNext(cube, threshold, i, size_, acc, r) ==
    IF r.ret = -1
    THEN [localMin |-> -1, localSolution |-> r.st.path,
          nodesExplored_ |-> r.st.nodesExplored_]
    ELSE MPISolver_rankLoop(cube, threshold, i + size_, size_,
             [acc EXCEPT !.localMin = IF r.ret < @ THEN r.ret ELSE @,
                         !.nodesExplored_ = r.st.nodesExplored_])

\* MPISolver::solve, the loop of lines 85-116 on one rank from index i on;
\* acc = [localMin, localSolution, nodesExplored_]
MPISolver_rankLoop(cube, threshold, i, size_, acc) ==
    IF i >= Len(getBasicMoves) THEN acc
    ELSE MPISolver_rankLoopNext(cube, threshold, i, size_, acc,
             MPISolver_idaSearch(
                 [cube |-> applyMove(cube, getBasicMoves[i + 1]),
                  path |-> <<getBasicMoves[i + 1]>>,
                  nodesExplored_ |-> acc.nodesExplored_],
                 1, threshold, getBasicMoves[i + 1]))

RECURSIVE MPISolver_iterate(_, _, _, _, _)

\* MPISolver::solve, lines 124-203: the collectives after the ranks' loops;
\* loc[r] is the result of rank r's loop.  MPI_Allreduce(MIN) is the minimum
\* of the ranks' localMin, MPI_Allreduce(MAX) the highest rank whose
\* localMin is -1; the broadcasts copy that rank's path to every rank.
MPISolver_reduce(cube, maxDepth, size_, loc) ==
    LET nodes1 == [r \in 0 .. (size_ - 1) |-> loc[r].nodesExplored_]
        globalMin == MinOf({loc[r].localMin : r \in 0 .. (size_ - 1)})
    IN  IF globalMin = -1
        THEN LET rankWithBest ==
                     MaxOf({r \in 0 .. (size_ - 1) : loc[r].localMin = -1})
             IN  [ret |-> loc[rankWithBest].localSolution, nodes |-> nodes1]
        ELSE IF globalMin = INT_MAX THEN [ret |-> <<>>, nodes |-> nodes1]
        ELSE MPISolver_iterate(cube, globalMin, maxDepth, size_, nodes1)

\* MPISolver::solve, the while loop of lines 67-205 run by all size_ ranks;
\* nodes[r] is nodesExplored_ of rank r
MPISolver_iterate(cube, threshold, maxDepth, size_, nodes) ==
    IF threshold > maxDepth THEN [ret |-> <<>>, nodes |-> nodes]
    ELSE MPISolver_reduce(cube, maxDepth, size_,
             [r \in 0 .. (size_ - 1) |->
                 MPISolver_rankLoop(cube, threshold, r, size_,
                     [localMin |-> INT_MAX, localSolution |-> <<>>,
                      nodesExplored_ |-> nodes[r]])])

\* MPISolver::solve, what every rank returns after the loop; nodesExplored_
\* is the counter of rank 0
MPISolver_solveReturn(cube, r) ==
    [ret |-> r.ret, cube |-> cube, nodesExplored_ |-> r.nodes[0]]

\* MPISolver::solve on newly constructed solvers, one per rank
MPISolver_solve(cube, maxDepth, size_) ==
    IF isSolved(cube)
    THEN [ret |-> <<>>, cube |-> cube, nodesExplored_ |-> 0]
    ELSE MPISolver_solveReturn(cube,
             MPISolver_iterate(cube, heuristic(cube), maxDepth, size_,
                 [k \in 0 .. (size_ - 1) |-> 0]))

(***************************************************************************)
(* OpenMPSolver.  A kernel state is [cube, path, nodesExplored_, fuel].    *)
(* solutionFound_ is a plain bool that the kernel reads while other        *)
(* threads may write it; `fuel` is the number of reads of it by this       *)
(* kernel call that still return false (-1: every read returns false).     *)
(***************************************************************************)
RECURSIVE OpenMPSolver_idaSearchParallel(_, _, _, _)
RECURSIVE OpenMPSolver_idaSearchParallelBody(_, _)
RECURSIVE OpenMPSolver_idaSearchParallelLoop(_, _, _)

\* one read of solutionFound_ by a kernel in state st
ReadsFlagSet(st) == st.fuel = 0
AfterFlagRead(st) == IF st.fuel > 0 THEN [st EXCEPT !.fuel = @ - 1] ELSE st

\* OpenMPSolver::idaSearchParallel, what the call returns once the loop is
\* over: -1 or INT_MAX from the pass that returned, else min
OpenMPSolver_idaSearchParallelReturn(s) ==
    [ret |-> IF s.done THEN s.ret ELSE s.min, st |-> s.st]

\* OpenMPSolver::idaSearchParallel, lines 110-159
OpenMPSolver_idaSearchParallel(st, g, threshold, lastMove) ==
    LET st1 == [st EXCEPT !.nodesExplored_ = @ + 1]
        st2 == AfterFlagRead(st1)
        f == g + heuristic(st2.cube)
    IN  IF ReadsFlagSet(st1) THEN [ret |-> INT_MAX, st |-> st1]
        ELSE IF f > threshold THEN [ret |-> f, st |-> st2]
        ELSE IF isSolved(st2.cube) THEN [ret |-> -1, st |-> st2]
        ELSE OpenMPSolver_idaSearchParallelReturn(
                 OpenMPSolver_idaSearchParallelLoop(
                     [done |-> FALSE, ret |-> 0, st |-> st2, g |-> g,
                      threshold |-> threshold, lastMove |-> lastMove,
                      min |-> INT_MAX],
                     1, Len(getBasicMoves)))

\* OpenMPSolver::idaSearchParallel, the loop of lines 134-156: the passes for
\* moves[lo .. hi] from loop state s, in order; a pass that sets s.done has
\* returned
OpenMPSolver_idaSearchParallelLoop(s, lo, hi) ==
    IF s.done THEN s
    ELSE IF lo = hi THEN OpenMPSolver_idaSearchParallelBody(s, getBasicMoves[lo])
    ELSE LET mid == (lo + hi) \div 2
             first == OpenMPSolver_idaSearchParallelLoop(s, lo, mid)
         IN  OpenMPSolver_idaSearchParallelLoop(first, mid + 1, hi)

\* Mutant of OpenMPSolver_idaSearchParallelChild: the move of a failed child
\* stays on the path.
OpenMPSolver_idaSearchParallelChild_NoPop(s, move, r) ==
    IF r.ret = -1
    THEN [s EXCEPT !.done = TRUE, !.ret = -1, !.st = r.st]
    ELSE [s EXCEPT !.min = IF r.ret < @ THEN r.ret ELSE @,
                   !.st = [r.st EXCEPT
                              !.cube = applyMove(@, getInverseMove(move))]]

\* OpenMPSolver::idaSearchParallel, lines 146-155 of the loop body: r is what
\* the recursive call returned
OpenMPSolver_idaSearchParallelChild(s, move, r) ==
    IF r.ret = -1
    THEN [s EXCEPT !.done = TRUE, !.ret = -1, !.st = r.st]
    ELSE [s EXCEPT !.min = IF r.ret < @ THEN r.ret ELSE @,
                   !.st = [r.st EXCEPT
                              !.path = pop_back(@),
                              !.cube = applyMove(@, getInverseMove(move))]]

\* OpenMPSolver::idaSearchParallel, the loop body of lines 134-156
OpenMPSolver_idaSearchParallelBody(s, move) ==
    IF ReadsFlagSet(s.st)
    THEN [s EXCEPT !.done = TRUE, !.ret = INT_MAX]
    ELSE IF isRedundantMove(s.lastMove, move)
    THEN [s EXCEPT !.st = AfterFlagRead(@)]
    ELSE OpenMPSolver_idaSearchParallelChild(s, move,
             OpenMPSolver_idaSearchParallel(
                 [AfterFlagRead(s.st) EXCEPT !.cube = applyMove(@, move),
                                             !.path = Append(@, move)],
                 s.g + 1, s.threshold, move))

\* OpenMPSolver::solve, lines 52-53: what branch i keeps of the kernel's
\* result r
OpenMPSolver_branchResult(r) ==
    [temp |-> r.ret, localPath |-> r.st.path, nodes |-> r.st.nodesExplored_]

\* OpenMPSolver::solve, lines 47-53: first-ply branch i of the parallel loop
OpenMPSolver_branch(cube, threshold, i, fuel) ==
    OpenMPSolver_branchResult(
        OpenMPSolver_idaSearchParallel(
            [cube |-> applyMove(cube, getBasicMoves[i + 1]),
             path |-> <<getBasicMoves[i + 1]>>,
             nodesExplored_ |-> 0, fuel |-> fuel],
            1, threshold, getBasicMoves[i + 1]))

(***************************************************************************)
(* The parallel loop `#pragma omp parallel for schedule(dynamic)` with its *)
(* critical section `if (!solutionFound_) { solution_ = localPath; ... }`, *)
(* taken as a whole.  I is the set of indices of the loop, S the indices   *)
(* whose kernel returns -1 when it is not cancelled, N the team size.      *)
(* Indices are handed out in increasing order, a thread takes its next     *)
(* index when it is done with the previous one, and the first thread to    *)
(* enter the critical section stores its path.  Index j can be that        *)
(* thread's only if every solved index before j is still being worked on   *)
(* by another thread, hence fewer than N solved indices precede j.         *)
(***************************************************************************)
ParallelForWinners(S, N) ==
    {j \in S : Cardinality({k \in S : k < j}) < N}

(***************************************************************************)
(* Nodes counted in the iteration in which index j stores the solution;    *)
(* n[k] is the node count of branch k when it runs to completion.  With    *)
(* one thread the indices up to j run to completion and the later ones     *)
(* are skipped at `if (solutionFound_) continue`.  With more threads the   *)
(* count depends on when the other threads see the flag; the two extreme   *)
(* schedules are kept: no other thread sees it before its branch is        *)
(* complete, or every unsolved branch before j is complete, every solved   *)
(* branch before j has counted its first node only, and every later index  *)
(* is skipped.                                                             *)
(***************************************************************************)
ParallelForNodes(n, I, S, j, N) ==
    IF N = 1 THEN {SumOver(n, {k \in I : k <= j})}
    ELSE {SumOver(n, I),
          n[j] + SumOver(n, {k \in I \ S : k < j})
               + Cardinality({k \in S : k < j})}

RECURSIVE OpenMPSolver_iterate(_, _, _, _, _)

\* OpenMPSolver::solve, lines 55-89: the outcome of an iteration whose
\* branches, run to completion, give res
OpenMPSolver_afterLoop(cube, maxDepth, numThreads_, nodes, res) ==
    LET n == [i \in Branches |-> res[i].nodes]
        S == {i \in Branches : res[i].temp = -1}
        minNext == MinOf({INT_MAX} \cup {res[i].temp : i \in Branches})
    IN  IF S # {}
        THEN UNION {{[ret |-> res[j].localPath, nodesExplored_ |-> nodes + c] :
                        c \in ParallelForNodes(n, Branches, S, j, numThreads_)} :
                    j \in ParallelForWinners(S, numThreads_)}
        ELSE IF minNext = INT_MAX
        THEN {[ret |-> <<>>, nodesExplored_ |-> nodes + SumOver(n, Branches)]}
        ELSE OpenMPSolver_iterate(cube, minNext, maxDepth, numThreads_,
                                  nodes + SumOver(n, Branches))

\* OpenMPSolver::solve, the while loop of lines 37-89: the set of results
\* [ret, nodesExplored_] over all schedules of numThreads_ threads
OpenMPSolver_iterate(cube, threshold, maxDepth, numThreads_, nodes) ==
    IF threshold > maxDepth THEN {[ret |-> <<>>, nodesExplored_ |-> nodes]}
    ELSE OpenMPSolver_afterLoop(cube, maxDepth, numThreads_, nodes,
             [i \in Branches |-> OpenMPSolver_branch(cube, threshold, i, -1)])

\* Mutant of OpenMPSolver_solve: the winning branch searches on the caller's
\* cube, not on a copy of it.
OpenMPSolver_solve_OnCallerCube(cube, maxDepth, numThreads_) ==
    IF isSolved(cube)
    THEN {[ret |-> <<>>, cube |-> cube, nodesExplored_ |-> 0]}
    ELSE {[ret |-> r.ret, cube |-> applyMoves(cube, r.ret),
           nodesExplored_ |-> r.nodesExplored_] :
             r \in OpenMPSolver_iterate(cube, heuristic(cube), maxDepth,
                                        numThreads_, 0)}

\* OpenMPSolver::solve on a newly constructed solver: the possible results
OpenMPSolver_solve(cube, maxDepth, numThreads_) ==
    IF isSolved(cube)
    THEN {[ret |-> <<>>, cube |-> cube, nodesExplored_ |-> 0]}
    ELSE {[ret |-> r.ret, cube |-> cube, nodesExplored_ |-> r.nodesExplored_] :
             r \in OpenMPSolver_iterate(cube, heuristic(cube), maxDepth,
                                        numThreads_, 0)}

(***************************************************************************)
(* HybridSolver: the ranks of MPISolver, each running its share of the     *)
(* first-ply indices with a team of numThreads_ threads.  Kernel state     *)
(* and `fuel` as for OpenMPSolver; solutionFound_ is per process.          *)
(***************************************************************************)
RECURSIVE HybridSolver_idaSearchHybrid(_, _, _, _)
RECURSIVE HybridSolver_idaSearchHybridBody(_, _)
RECURSIVE HybridSolver_idaSearchHybridLoop(_, _, _)

\* HybridSolver::idaSearchHybrid, what the call returns once the loop is over:
\* -1 or INT_MAX from the pass that returned, else min
HybridSolver_idaSearchHybridReturn(s) ==
    [ret |-> IF s.done THEN s.ret ELSE s.min, st |-> s.st]

\* HybridSolver::idaSearchHybrid, lines 273-328
HybridSolver_idaSearchHybrid(st, g, threshold, lastMove) ==
    LET st1 == [st EXCEPT !.nodesExplored_ = @ + 1]
        st2 == AfterFlagRead(st1)
        f == g + heuristic(st2.cube)
    IN  IF ReadsFlagSet(st1) THEN [ret |-> INT_MAX, st |-> st1]
        ELSE IF f > threshold THEN [ret |-> f, st |-> st2]
        ELSE IF isSolved(st2.cube) THEN [ret |-> -1, st |-> st2]
        ELSE HybridSolver_idaSearchHybridReturn(
                 HybridSolver_idaSearchHybridLoop(
                     [done |-> FALSE, ret |-> 0, st |-> st2, g |-> g,
                      threshold |-> threshold, lastMove |-> lastMove,
                      min |-> INT_MAX],
                     1, Len(getBasicMoves)))

\* HybridSolver::idaSearchHybrid, the loop of lines 311-325: the passes for
\* moves[lo .. hi] from loop state s, in order; a pass that sets s.done has
\* returned
HybridSolver_idaSearchHybridLoop(s, lo, hi) ==
    IF s.done THEN s
    ELSE IF lo = hi THEN HybridSolver_idaSearchHybridBody(s, getBasicMoves[lo])
    ELSE LET mid == (lo + hi) \div 2
             first == HybridSolver_idaSearchHybridLoop(s, lo, mid)
         IN  HybridSolver_idaSearchHybridLoop(first, mid + 1, hi)

\* HybridSolver::idaSearchHybrid, lines 320-324 of the loop body: r is what
\* the recursive call returned
HybridSolver_idaSearchHybridChild(s, move, r) ==
    IF r.ret = -1
    THEN [s EXCEPT !.done = TRUE, !.ret = -1, !.st = r.st]
    ELSE [s EXCEPT !.min = IF r.ret < @ THEN r.ret ELSE @,
                   !.st = [r.st EXCEPT
                              !.path = pop_back(@),
                              !.cube = applyMove(@, getInverseMove(move))]]

\* HybridSolver::idaSearchHybrid, the loop body of lines 311-325
HybridSolver_idaSearchHybridBody(s, move) ==
    IF ReadsFlagSet(s.st)
    THEN [s EXCEPT !.done = TRUE, !.ret = INT_MAX]
    ELSE IF isRedundantMove(s.lastMove, move)
    THEN [s EXCEPT !.st = AfterFlagRead(@)]
    ELSE HybridSolver_idaSearchHybridChild(s, move,
             HybridSolver_idaSearchHybrid(
                 [AfterFlagRead(s.st) EXCEPT !.cube = applyMove(@, move),
                                             !.path = Append(@, move)],
                 s.g + 1, s.threshold, move))

\* HybridSolver::solve, line 131: what branch i keeps of the kernel's
\* result r
HybridSolver_branchResult(r) ==
    [temp |-> r.ret, localPath |-> r.st.path, nodes |-> r.st.nodesExplored_]

\* HybridSolver::solve, lines 127-131: first-ply branch i
HybridSolver_branch(cube, threshold, i, fuel) ==
    HybridSolver_branchResult(
        HybridSolver_idaSearchHybrid(
            [cube |-> applyMove(cube, getBasicMoves[i + 1]),
             path |-> <<getBasicMoves[i + 1]>>,
             nodesExplored_ |-> 0, fuel |-> fuel],
            1, threshold, getBasicMoves[i + 1]))

\* for (size_t i = rank_; i < moves.size(); i += size_): the indices of a rank
RankBranches(rank_, size_) == {i \in Branches : i >= rank_ /\ (i - rank_) % size_ = 0}

RECURSIVE HybridSolver_iterate(_, _, _, _, _, _)

\* HybridSolver::solve, lines 140-246: the outcome of an iteration whose
\* branches, run to completion, give res
HybridSolver_afterLoop(cube, maxDepth, size_, numThreads_, nodes, res) ==
    LET Ranks == 0 .. (size_ - 1)
        n == [i \in Branches |-> res[i].nodes]
        I == [r \in Ranks |-> RankBranches(r, size_)]
        S == [r \in Ranks |-> {i \in I[r] : res[i].temp = -1}]
        localMin == [r \in Ranks |->
                        IF S[r] # {} THEN -1
                        ELSE MinOf({INT_MAX} \cup {res[i].temp : i \in I[r]})]
        globalMin == MinOf({localMin[r] : r \in Ranks})
    IN  IF globalMin = -1
        THEN LET rankWithBest == MaxOf({r \in Ranks : localMin[r] = -1})
                 own == [j \in S[0] |->
                            ParallelForNodes(n, I[0], S[0], j, numThreads_)]
                 count == IF S[0] = {} THEN {SumOver(n, I[0])}
                          ELSE UNION {own[k] :
                                         k \in ParallelForWinners(S[0], numThreads_)}
             IN  UNION {{[ret |-> res[j].localPath,
                          nodesExplored_ |-> nodes + c] :
                            c \in IF rankWithBest = 0 THEN own[j] ELSE count} :
                        j \in ParallelForWinners(S[rankWithBest], numThreads_)}
        ELSE IF globalMin = INT_MAX
        THEN {[ret |-> <<>>, nodesExplored_ |-> nodes + SumOver(n, I[0])]}
        ELSE HybridSolver_iterate(cube, globalMin, maxDepth, size_,
                                  numThreads_, nodes + SumOver(n, I[0]))

\* HybridSolver::solve, the while loop of lines 90-248 run by all ranks: the
\* set of results [ret, nodesExplored_] over all schedules; nodes is the
\* counter of rank 0 so far
HybridSolver_iterate(cube, threshold, maxDepth, size_, numThreads_, nodes) ==
    IF threshold > maxDepth THEN {[ret |-> <<>>, nodesExplored_ |-> nodes]}
    ELSE HybridSolver_afterLoop(cube, maxDepth, size_, numThreads_, nodes,
             [i \in Branches |-> HybridSolver_branch(cube, threshold, i, -1)])

\* HybridSolver::solve on newly constructed solvers, one per rank: the
\* possible results; ret is the path every rank returns, nodesExplored_
\* the counter of rank 0
HybridSolver_solve(cube, maxDepth, size_, numThreads_) ==
    IF isSolved(cube)
    THEN {[ret |-> <<>>, cube |-> cube, nodesExplored_ |-> 0]}
    ELSE {[ret |-> r.ret, cube |-> cube, nodesExplored_ |-> r.nodesExplored_] :
             r \in HybridSolver_iterate(cube, heuristic(cube), maxDepth, size_,
                                        numThreads_, 0)}

(***************************************************************************)
(* Quarter-turn length of a move sequence: a half-turn counts as two.      *)
(***************************************************************************)
RECURSIVE QuarterTurns(_)
QuarterTurns(moves) ==
    IF moves = <<>> THEN 0
    ELSE (IF Len(Head(moves)) = 2 /\ Head(moves)[2] = "2" THEN 2 ELSE 1)
         + QuarterTurns(Tail(moves))

NoSolve == [pc |-> "none"]

(***************************************************************************)
(* Spec: one cube object.  It is constructed solved (default constructor)  *)
(* or from a 54-character string, moves are applied to it with applyMove,  *)
(* and the moves are then undone last-first with                           *)
(* applyMove(getInverseMove(m)), as tests/test_solver.cpp does.            *)
(***************************************************************************)
Init ==
    /\ faces_ \in {reset, LabelledCube}
    /\ start = faces_
    /\ applied = <<>>
    /\ undone = 0
    /\ seq = NoSolve
    /\ slv = NoSolve
    /\ omp = NoSolve
    /\ http = NoSolve
    /\ scr = NoSolve
    /\ obj = NoSolve
    /\ hyb = NoSolve
    /\ mpi = NoSolve

ApplyMove(m) ==
    /\ undone = 0
    /\ Len(applied) < MaxMoves
    /\ faces_' = applyMove(faces_, m)
    /\ applied' = Append(applied, m)
    /\ UNCHANGED <<start, undone, seq, slv, omp, http, scr, obj, hyb, mpi>>

UndoMove ==
    /\ undone < Len(applied)
    /\ faces_' = applyMove(faces_, getInverseMove(applied[Len(applied) - undone]))
    /\ undone' = undone + 1
    /\ UNCHANGED <<start, applied, seq, slv, omp, http, scr, obj, hyb, mpi>>

Next ==
    \/ \E m \in AllMoves : ApplyMove(m)
    \/ UndoMove

Spec == Init /\ [][Next]_vars

(***************************************************************************)
(* SpecSolve: a cube is constructed solved and scrambled with moves of the *)
(* 18-token set (RubiksCube::scramble draws them from getAllMoves()).      *)
(* SequentialSolver::solve is then called on that cube object, as          *)
(* testSolverOnEasyCase does, and the test applies the returned moves to   *)
(* the same object.  The other backends are run with the same maxDepth on  *)
(* a cube built from the state captured before the sequential call, as     *)
(* HTTPServer::solveCube runs its backends one after the other.  Every     *)
(* solve is made on a newly constructed solver.                            *)
(***************************************************************************)
InitSolve ==
    /\ faces_ = reset
    /\ start = reset
    /\ applied = <<>>
    /\ undone = 0
    /\ seq = NoSolve
    /\ slv = NoSolve
    /\ omp = NoSolve
    /\ http = NoSolve
    /\ scr = NoSolve
    /\ obj = NoSolve
    /\ hyb = NoSolve
    /\ mpi = NoSolve

Scramble(m) ==
    /\ seq.pc = "none"
    /\ Len(applied) < MaxScramble
    /\ faces_' = applyMove(faces_, m)
    /\ applied' = Append(applied, m)
    /\ UNCHANGED <<start, undone, seq, slv, omp, http, scr, obj, hyb, mpi>>

\* the record of a finished solve() call
Solved(backend, input, maxDepth, size_, numThreads_, r) ==
    [pc |-> "done", backend |-> backend, input |-> input, maxDepth |-> maxDepth,
     size_ |-> size_, numThreads_ |-> numThreads_,
     ret |-> r.ret, cube |-> r.cube, nodesExplored_ |-> r.nodesExplored_]

SolveSequential(maxDepth) ==
    /\ seq.pc = "none"
    /\ seq' = Solved("sequential", faces_, maxDepth, 1, 1,
                     SequentialSolver_solve(faces_, maxDepth))
    /\ faces_' = seq'.cube
    /\ UNCHANGED <<start, applied, undone, slv, omp, http, scr, obj, hyb, mpi>>

\* cube.applyMoves(solution) of testSolverOnEasyCase
ApplySolution ==
    /\ seq.pc = "done"
    /\ slv.pc = "none"
    /\ faces_' = applyMoves(faces_, seq.ret)
    /\ seq' = [seq EXCEPT !.pc = "applied"]
    /\ UNCHANGED <<start, applied, undone, slv, omp, http, scr, obj, hyb, mpi>>

SolveIDAStar ==
    /\ seq.pc = "done"
    /\ slv.pc = "none"
    /\ slv' = Solved("idastar", seq.input, seq.maxDepth, 1, 1,
                     IDAStarSolver_solve(seq.input, seq.maxDepth))
    /\ UNCHANGED <<faces_, start, applied, undone, seq, omp, http, scr, obj, hyb, mpi>>

SolveOpenMP(numThreads_) ==
    /\ seq.pc = "done"
    /\ slv.pc = "none"
    /\ \E r \in OpenMPSolver_solve(seq.input, seq.maxDepth, numThreads_) :
          slv' = Solved("openmp", seq.input, seq.maxDepth, 1, numThreads_, r)
    /\ UNCHANGED <<faces_, start, applied, undone, seq, omp, http, scr, obj, hyb, mpi>>

SolveMPI(size_) ==
    /\ seq.pc = "done"
    /\ slv.pc = "none"
    /\ slv' = Solved("mpi", seq.input, seq.maxDepth, size_, 1,
                     MPISolver_solve(seq.input, seq.maxDepth, size_))
    /\ UNCHANGED <<faces_, start, applied, undone, seq, omp, http, scr, obj, hyb, mpi>>

SolveHybrid(size_, numThreads_) ==
    /\ seq.pc = "done"
    /\ slv.pc = "none"
    /\ \E r \in HybridSolver_solve(seq.input, seq.maxDepth, size_, numThreads_) :
          slv' = Solved("hybrid", seq.input, seq.maxDepth, size_, numThreads_, r)
    /\ UNCHANGED <<faces_, start, applied, undone, seq, omp, http, scr, obj, hyb, mpi>>

NextSolve ==
    \/ \E m \in AllMoves : Scramble(m)
    \/ \E maxDepth \in 0 .. MaxSolveDepth : SolveSequential(maxDepth)
    \/ ApplySolution
    \/ SolveIDAStar
    \/ \E numThreads_ \in 1 .. MaxThreads : SolveOpenMP(numThreads_)
    \/ \E size_ \in 1 .. MaxRanks : SolveMPI(size_)
    \/ \E size_ \in 1 .. MaxRanks, numThreads_ \in 1 .. MaxThreads :
          SolveHybrid(size_, numThreads_)

SpecSolve == InitSolve /\ [][NextSolve]_vars

\* the finished solve() calls of the state
Calls == {r \in {seq, slv} : r.pc # "none"}

(***************************************************************************)
(* SpecOMP: OpenMPSolver::solve thread by thread.  The cube is one of a    *)
(* few scrambles, and solve() is called on it twice (two solver objects,   *)
(* each with its own thread count), the second call after the first has    *)
(* returned.  In the parallel loop a thread is idle, or has an index and   *)
(* is about to run the kernel ("search"), or holds the kernel's result     *)
(* ("post"), or waits to enter one of the two critical sections.           *)
(* `written` is the set of values minNext has held in the current          *)
(* iteration: the unlocked read of line 64 returns one of them.  ran[i]    *)
(* counts the kernel calls of OmpSearch and HybSearch for first-ply index  *)
(* i in the current iteration.                                             *)
(***************************************************************************)
OmpScrambles ==
    { <<>>,
      << <<"B">> >>,
      << <<"U">>, <<"R">> >>,
      << <<"R">>, <<"B">>, <<"R", "'">> >>,
      << <<"U", "2">> >> }

IdleThread == [pc |-> "idle", i |-> 0, temp |-> 0, localPath |-> <<>>]

\* OpenMPSolver::OpenMPSolver and Solver: the members of a new solver
NewOpenMPSolver(maxDepth, run, prevLen, prevThreads) ==
    [pc |-> "ready", run |-> run, prevLen |-> prevLen, prevThreads |-> prevThreads,
     maxDepth |-> maxDepth, numThreads_ |-> 0, threshold |-> 0, found |-> FALSE,
     solutionFound_ |-> FALSE, solution_ |-> <<>>, minNext |-> INT_MAX,
     written |-> {}, nodesExplored_ |-> 0, next |-> 0, th |-> <<>>, ret |-> <<>>,
     ran |-> [i \in Branches |-> 0]]

InitOMP ==
    /\ start = reset
    /\ applied \in OmpScrambles
    /\ faces_ = applyMoves(reset, applied)
    /\ undone = 0
    /\ seq = NoSolve
    /\ slv = NoSolve
    /\ \E maxDepth \in 0 .. MaxSolveDepth :
          omp = NewOpenMPSolver(maxDepth, 1, -1, 0)
    /\ http = NoSolve
    /\ scr = NoSolve
    /\ obj = NoSolve
    /\ hyb = NoSolve
    /\ mpi = NoSolve

\* OpenMPSolver::solve, lines 91-107
OmpReturn(o) ==
    [o EXCEPT !.pc = "done",
              !.ret = IF o.solutionFound_ THEN o.solution_ ELSE <<>>,
              !.th = <<>>]

\* Mutant of OmpLoopHead: minNext is not reset at the start of an iteration.
OmpLoopHead_KeepsMinNext(o) ==
    IF ~o.found /\ o.threshold <= o.maxDepth /\ ~o.solutionFound_
    THEN [o EXCEPT !.pc = "loop", !.written = {o.minNext},
                   !.next = 0, !.th = [t \in 1 .. o.numThreads_ |-> IdleThread],
                   !.ran = [i \in Branches |-> 0]]
    ELSE OmpReturn(o)

\* OpenMPSolver::solve, lines 37-43: the loop condition and the start of an
\* iteration
OmpLoopHead(o) ==
    IF ~o.found /\ o.threshold <= o.maxDepth /\ ~o.solutionFound_
    THEN [o EXCEPT !.pc = "loop", !.minNext = INT_MAX, !.written = {INT_MAX},
                   !.next = 0, !.th = [t \in 1 .. o.numThreads_ |-> IdleThread],
                   !.ran = [i \in Branches |-> 0]]
    ELSE OmpReturn(o)

\* OpenMPSolver::solve, lines 15-37, on a solver with numThreads threads
OmpSolve(numThreads) ==
    /\ omp.pc = "ready"
    /\ omp' = IF isSolved(faces_)
              THEN [omp EXCEPT !.pc = "done", !.numThreads_ = numThreads,
                               !.ret = <<>>]
              ELSE OmpLoopHead([omp EXCEPT !.numThreads_ = numThreads,
                                           !.solution_ = <<>>,
                                           !.nodesExplored_ = 0,
                                           !.solutionFound_ = FALSE,
                                           !.threshold = heuristic(faces_),
                                           !.found = FALSE])
    /\ UNCHANGED <<faces_, start, applied, undone, seq, slv, http, scr, obj, hyb, mpi>>

\* schedule(dynamic) hands the next index to an idle thread; line 45
OmpFetch(t) ==
    /\ omp.pc = "loop"
    /\ omp.th[t].pc = "idle"
    /\ omp.next < Len(getBasicMoves)
    /\ \E sees \in (IF omp.solutionFound_ THEN {TRUE, FALSE} ELSE {FALSE}) :
          omp' = [omp EXCEPT !.next = @ + 1,
                             !.th[t] = IF sees THEN IdleThread
                                       ELSE [IdleThread EXCEPT !.pc = "search",
                                                               !.i = omp.next]]
    /\ UNCHANGED <<faces_, start, applied, undone, seq, slv, http, scr, obj, hyb, mpi>>

\* line 52: thread t holds the result b of its branch; the kernel has
\* counted its nodes in nodesExplored_
OmpBranchDone(o, t, b) ==
    [o EXCEPT !.nodesExplored_ = @ + b.nodes,
              !.th[t] = [@ EXCEPT !.pc = "post", !.temp = b.temp,
                                  !.localPath = b.localPath]]

\* lines 47-53: the kernel on the thread's own copy of the cube
OmpSearch(t) ==
    /\ omp.pc = "loop"
    /\ omp.th[t].pc = "search"
    /\ \E fuel \in (IF omp.solutionFound_ THEN -1 .. MaxFuel ELSE {-1}) :
          omp' = [OmpBranchDone(omp, t,
                      OpenMPSolver_branch(faces_, omp.threshold, omp.th[t].i, fuel))
                  EXCEPT !.ran[omp.th[t].i] = @ + 1]
    /\ UNCHANGED <<faces_, start, applied, undone, seq, slv, http, scr, obj, hyb, mpi>>

\* lines 55 and 64: which critical section, if any, the thread goes for
OmpPost(t) ==
    /\ omp.pc = "loop"
    /\ omp.th[t].pc = "post"
    /\ \E seen \in omp.written :
          omp' = [omp EXCEPT !.th[t] =
                     IF omp.th[t].temp = -1
                     THEN [@ EXCEPT !.pc = "critical_solution"]
                     ELSE IF omp.th[t].temp < seen
                     THEN [@ EXCEPT !.pc = "critical_minNext"]
                     ELSE IdleThread]
    /\ UNCHANGED <<faces_, start, applied, undone, seq, slv, http, scr, obj, hyb, mpi>>

\* lines 56-63
OmpCriticalSolution(t) ==
    /\ omp.pc = "loop"
    /\ omp.th[t].pc = "critical_solution"
    /\ omp' = IF ~omp.solutionFound_
              THEN [omp EXCEPT !.solution_ = omp.th[t].localPath,
                               !.solutionFound_ = TRUE,
                               !.found = TRUE,
                               !.th[t] = IdleThread]
              ELSE [omp EXCEPT !.th[t] = IdleThread]
    /\ UNCHANGED <<faces_, start, applied, undone, seq, slv, http, scr, obj, hyb, mpi>>

\* Mutant of OpenMPSolver_criticalMinNext: no re-check inside the critical
\* section.
OpenMPSolver_criticalMinNext_NoRecheck(minNext, temp) == temp

\* lines 67-69: the new value of minNext
OpenMPSolver_criticalMinNext(minNext, temp) ==
    IF temp < minNext THEN temp ELSE minNext

\* lines 65-70
OmpCriticalMinNext(t) ==
    /\ omp.pc = "loop"
    /\ omp.th[t].pc = "critical_minNext"
    /\ LET m == OpenMPSolver_criticalMinNext(omp.minNext, omp.th[t].temp)
       IN  omp' = [omp EXCEPT !.minNext = m,
                              !.written = @ \cup {m},
                              !.th[t] = IdleThread]
    /\ UNCHANGED <<faces_, start, applied, undone, seq, slv, http, scr, obj, hyb, mpi>>

\* the end of the parallel loop (every index handed out, every thread
\* through), then lines 74-89 and the loop condition
OmpJoin ==
    /\ omp.pc = "loop"
    /\ omp.next = Len(getBasicMoves)
    /\ \A t \in 1 .. omp.numThreads_ : omp.th[t].pc = "idle"
    /\ omp' = IF omp.found \/ omp.minNext = INT_MAX
              THEN OmpReturn(omp)
              ELSE OmpLoopHead([omp EXCEPT !.threshold = omp.minNext])
    /\ UNCHANGED <<faces_, start, applied, undone, seq, slv, http, scr, obj, hyb, mpi>>

\* a second solve of the same cube, on another new solver
OmpRepeat ==
    /\ omp.pc = "done"
    /\ omp.run = 1
    /\ omp' = NewOpenMPSolver(omp.maxDepth, 2, Len(omp.ret), omp.numThreads_)
    /\ UNCHANGED <<faces_, start, applied, undone, seq, slv, http, scr, obj, hyb, mpi>>

NextOMP ==
    \/ \E numThreads \in 1 .. MaxThreads : OmpSolve(numThreads)
    \/ \E t \in 1 .. MaxThreads :
          /\ t <= omp.numThreads_
          /\ \/ OmpFetch(t)
             \/ OmpSearch(t)
             \/ OmpPost(t)
             \/ OmpCriticalSolution(t)
             \/ OmpCriticalMinNext(t)
    \/ OmpJoin
    \/ OmpRepeat

SpecOMP == InitOMP /\ [][NextOMP]_vars

(***************************************************************************)
(* SpecTeams: the thread teams of the two OpenMP backends.  A behaviour    *)
(* is either one of SpecOMP (OpenMPSolver::solve, variable omp) or the     *)
(* run of HybridSolver::solve by one rank rank_ of size_ (variable hyb),   *)
(* thread by thread as in SpecOMP.  The other ranks are seen through the   *)
(* collectives only: what they contribute to MPI_Allreduce and broadcast   *)
(* is computed from their share of the first-ply indices.  `written` is    *)
(* the set of values localMin has held in the current iteration.  The      *)
(* solver that is not run has pc "none" throughout.  The 120 s wall-clock  *)
(* limit is not modelled here (see SpecMPI).  A third kind of behaviour is *)
(* the run of MPISolver::solve by one rank (variable mpi), one pass of its *)
(* first-ply loop at a time.                                               *)
(***************************************************************************)
\* HybridSolver::HybridSolver: the members of the solver of rank rank_
NewHybridSolver(maxDepth, rank_, size_) ==
    [pc |-> "ready", rank_ |-> rank_, size_ |-> size_, maxDepth |-> maxDepth,
     numThreads_ |-> 0, threshold |-> 0, found |-> FALSE,
     solutionFound_ |-> FALSE, solution_ |-> <<>>, localSolution |-> <<>>,
     localMin |-> INT_MAX, written |-> {}, nodesExplored_ |-> 0, next |-> 0,
     th |-> <<>>, ret |-> <<>>, ran |-> [i \in Branches |-> 0], rets |-> {}]

ManyRanks == 13   \* a communicator with more ranks than first-ply moves

\* MPISolver::MPISolver: the members of the solver of rank rank_, and the
\* locals of its solve()
NewMPISolver(maxDepth, rank_, size_) ==
    [pc |-> "ready", rank_ |-> rank_, size_ |-> size_, maxDepth |-> maxDepth,
     threshold |-> 0, found |-> FALSE, solution_ |-> <<>>,
     localSolution |-> <<>>, localMin |-> INT_MAX, i |-> 0,
     nodesExplored_ |-> 0, ret |-> <<>>, ran |-> [i \in Branches |-> 0]]

InitTeams ==
    /\ start = reset
    /\ applied \in OmpScrambles
    /\ faces_ = applyMoves(reset, applied)
    /\ undone = 0
    /\ seq = NoSolve
    /\ slv = NoSolve
    /\ http = NoSolve
    /\ scr = NoSolve
    /\ obj = NoSolve
    /\ \E maxDepth \in 0 .. MaxSolveDepth :
          \/ /\ omp = NewOpenMPSolver(maxDepth, 1, -1, 0)
             /\ hyb = [NewHybridSolver(maxDepth, 0, 1) EXCEPT !.pc = "none"]
             /\ mpi = [NewMPISolver(maxDepth, 0, 1) EXCEPT !.pc = "none"]
          \/ /\ omp = [NewOpenMPSolver(maxDepth, 1, -1, 0) EXCEPT !.pc = "none"]
             /\ \E size_ \in (1 .. MaxRanks) \cup {ManyRanks} :
                   \E rank_ \in 0 .. (size_ - 1) :
                      \/ /\ hyb = NewHybridSolver(maxDepth, rank_, size_)
                         /\ mpi = [NewMPISolver(maxDepth, 0, 1) EXCEPT !.pc = "none"]
                      \/ /\ hyb = [NewHybridSolver(maxDepth, 0, 1) EXCEPT !.pc = "none"]
                         /\ mpi = NewMPISolver(maxDepth, rank_, size_)

\* HybridSolver::solve, lines 250-270
HybReturn(o) ==
    [o EXCEPT !.pc = "done", !.ret = o.solution_, !.th = <<>>]

\* HybridSolver::solve, lines 90-116: the loop condition and the start of an
\* iteration
HybLoopHead(o) ==
    IF ~o.found /\ o.threshold <= o.maxDepth /\ ~o.solutionFound_
    THEN [o EXCEPT !.pc = "loop", !.localSolution = <<>>, !.localMin = INT_MAX,
                   !.written = {INT_MAX}, !.next = o.rank_,
                   !.th = [t \in 1 .. o.numThreads_ |-> IdleThread],
                   !.ran = [i \in Branches |-> 0], !.rets = {}]
    ELSE HybReturn(o)

\* HybridSolver::solve, lines 61-90, on a solver with numThreads threads
HybSolve(numThreads) ==
    /\ hyb.pc = "ready"
    /\ hyb' = IF isSolved(faces_)
              THEN [hyb EXCEPT !.pc = "done", !.numThreads_ = numThreads,
                               !.ret = <<>>]
              ELSE HybLoopHead([hyb EXCEPT !.numThreads_ = numThreads,
                                           !.solution_ = <<>>,
                                           !.nodesExplored_ = 0,
                                           !.solutionFound_ = FALSE,
                                           !.threshold = heuristic(faces_),
                                           !.found = FALSE])
    /\ UNCHANGED <<faces_, start, applied, undone, seq, slv, omp, http, scr, obj, mpi>>

\* Mutant of HybFetch: the loop goes on to the next index, not to the next
\* index of the rank.
HybFetch_NextIndex(t) ==
    /\ hyb.pc = "loop"
    /\ hyb.th[t].pc = "idle"
    /\ hyb.next < Len(getBasicMoves)
    /\ \E sees \in (IF hyb.solutionFound_ THEN {TRUE, FALSE} ELSE {FALSE}) :
          hyb' = [hyb EXCEPT !.next = @ + 1,
                             !.th[t] = IF sees THEN IdleThread
                                       ELSE [IdleThread EXCEPT !.pc = "search",
                                                               !.i = hyb.next]]
    /\ UNCHANGED <<faces_, start, applied, undone, seq, slv, omp, http, scr, obj, mpi>>

\* schedule(dynamic) hands the next index of the rank to an idle thread;
\* lines 116-117
HybFetch(t) ==
    /\ hyb.pc = "loop"
    /\ hyb.th[t].pc = "idle"
    /\ hyb.next < Len(getBasicMoves)
    /\ \E sees \in (IF hyb.solutionFound_ THEN {TRUE, FALSE} ELSE {FALSE}) :
          hyb' = [hyb EXCEPT !.next = @ + hyb.size_,
                             !.th[t] = IF sees THEN IdleThread
                                       ELSE [IdleThread EXCEPT !.pc = "search",
                                                               !.i = hyb.next]]
    /\ UNCHANGED <<faces_, start, applied, undone, seq, slv, omp, http, scr, obj, mpi>>

\* line 131: thread t holds the result b of its branch; the kernel has
\* counted its nodes in nodesExplored_
HybBranchDone(o, t, b) ==
    [o EXCEPT !.nodesExplored_ = @ + b.nodes,
              !.th[t] = [@ EXCEPT !.pc = "post", !.temp = b.temp,
                                  !.localPath = b.localPath]]

\* lines 127-131: the kernel on the thread's own copy of the cube; rets
\* keeps what the kernel calls of the iteration returned
HybSearch(t) ==
    /\ hyb.pc = "loop"
    /\ hyb.th[t].pc = "search"
    /\ \E fuel \in (IF hyb.solutionFound_ THEN -1 .. MaxFuel ELSE {-1}) :
          LET b == HybridSolver_branch(faces_, hyb.threshold, hyb.th[t].i, fuel)
          IN  hyb' = [HybBranchDone(hyb, t, b)
                      EXCEPT !.ran[hyb.th[t].i] = @ + 1,
                             !.rets = @ \cup {[temp |-> b.temp,
                                               localPath |-> b.localPath]}]
    /\ UNCHANGED <<faces_, start, applied, undone, seq, slv, omp, http, scr, obj, mpi>>

\* lines 140 and 152: which critical section, if any, the thread goes for
HybPost(t) ==
    /\ hyb.pc = "loop"
    /\ hyb.th[t].pc = "post"
    /\ \E seen \in hyb.written :
          hyb' = [hyb EXCEPT !.th[t] =
                     IF hyb.th[t].temp = -1
                     THEN [@ EXCEPT !.pc = "critical_solution"]
                     ELSE IF hyb.th[t].temp < seen
                     THEN [@ EXCEPT !.pc = "critical_localMin"]
                     ELSE IdleThread]
    /\ UNCHANGED <<faces_, start, applied, undone, seq, slv, omp, http, scr, obj, mpi>>

\* Mutant of HybridSolver_criticalSolution: no re-check of solutionFound_
\* inside the critical section.
HybridSolver_criticalSolution_NoRecheck(o, t) ==
    [o EXCEPT !.localSolution = o.th[t].localPath,
              !.localMin = -1,
              !.written = @ \cup {-1},
              !.solutionFound_ = TRUE,
              !.th[t] = IdleThread]

\* lines 141-151: the critical section of thread t, whose kernel returned -1
HybridSolver_criticalSolution(o, t) ==
    IF ~o.solutionFound_
    THEN [o EXCEPT !.localSolution = o.th[t].localPath,
                   !.localMin = -1,
                   !.written = @ \cup {-1},
                   !.solutionFound_ = TRUE,
                   !.th[t] = IdleThread]
    ELSE [o EXCEPT !.th[t] = IdleThread]

HybCriticalSolution(t) ==
    /\ hyb.pc = "loop"
    /\ hyb.th[t].pc = "critical_solution"
    /\ hyb' = HybridSolver_criticalSolution(hyb, t)
    /\ UNCHANGED <<faces_, start, applied, undone, seq, slv, omp, http, scr, obj, mpi>>

\* Mutant of HybCriticalLocalMin: no re-check inside the critical section.
HybCriticalLocalMin_NoRecheck(t) ==
    /\ hyb.pc = "loop"
    /\ hyb.th[t].pc = "critical_localMin"
    /\ hyb' = [hyb EXCEPT !.localMin = hyb.th[t].temp,
                          !.written = @ \cup {hyb.th[t].temp},
                          !.th[t] = IdleThread]
    /\ UNCHANGED <<faces_, start, applied, undone, seq, slv, omp, http, scr, obj, mpi>>

\* lines 153-160
HybCriticalLocalMin(t) ==
    /\ hyb.pc = "loop"
    /\ hyb.th[t].pc = "critical_localMin"
    /\ LET m == IF hyb.th[t].temp < hyb.localMin THEN hyb.th[t].temp
                ELSE hyb.localMin
       IN  hyb' = [hyb EXCEPT !.localMin = m,
                              !.written = @ \cup {m},
                              !.th[t] = IdleThread]
    /\ UNCHANGED <<faces_, start, applied, undone, seq, slv, omp, http, scr, obj, mpi>>

\* what rank r contributes to the collectives of an iteration at threshold:
\* its localMin, and the paths its team can have stored in localSolution
HybridSolver_rankLocal(res, r, size_, numThreads_) ==
    LET I == RankBranches(r, size_)
        S == {i \in I : res[i].temp = -1}
    IN  IF S # {}
        THEN [localMin |-> -1,
              localSolution |-> {res[j].localPath :
                                    j \in ParallelForWinners(S, numThreads_)}]
        ELSE [localMin |-> MinOf({INT_MAX} \cup {res[i].temp : i \in I}),
              localSolution |-> {<<>>}]

\* lines 171-248 on rank o.rank_: the collectives, with loc[r] the
\* contribution of every other rank r and path the solution broadcast by
\* rankWithBest, then the loop condition
HybridSolver_collectives(o, loc, Others) ==
    LET globalMin == MinOf({o.localMin} \cup {loc[r].localMin : r \in Others})
        rankWithBest == MaxOf({-1}
                              \cup (IF o.localMin = -1 THEN {o.rank_} ELSE {})
                              \cup {r \in Others : loc[r].localMin = -1})
    IN  IF globalMin = -1
        THEN IF rankWithBest = o.rank_
             THEN {HybLoopHead([o EXCEPT !.found = TRUE,
                                         !.solution_ = o.localSolution,
                                         !.threshold = globalMin])}
             ELSE {HybLoopHead([o EXCEPT !.found = TRUE,
                                         !.solution_ = path,
                                         !.threshold = globalMin]) :
                      path \in loc[rankWithBest].localSolution}
        ELSE IF globalMin = INT_MAX THEN {HybReturn(o)}
        ELSE {HybLoopHead([o EXCEPT !.threshold = globalMin])}

\* the end of the parallel loop (every index of the rank handed out, every
\* thread through), then lines 171-248
HybJoin ==
    /\ hyb.pc = "loop"
    /\ hyb.next >= Len(getBasicMoves)
    /\ \A t \in 1 .. hyb.numThreads_ : hyb.th[t].pc = "idle"
    /\ hyb' \in HybridSolver_collectives(hyb,
                    [r \in (0 .. (hyb.size_ - 1)) \ {hyb.rank_} |->
                        HybridSolver_rankLocal(
                            [i \in Branches |->
                                HybridSolver_branch(faces_, hyb.threshold, i, -1)],
                            r, hyb.size_, hyb.numThreads_)],
                    (0 .. (hyb.size_ - 1)) \ {hyb.rank_})
    /\ UNCHANGED <<faces_, start, applied, undone, seq, slv, omp, http, scr, obj, mpi>>

NextHyb ==
    \/ \E numThreads \in 1 .. MaxThreads : HybSolve(numThreads)
    \/ \E t \in 1 .. MaxThreads :
          /\ t <= hyb.numThreads_
          /\ \/ HybFetch(t)
             \/ HybSearch(t)
             \/ HybPost(t)
             \/ HybCriticalSolution(t)
             \/ HybCriticalLocalMin(t)
    \/ HybJoin

\* MPISolver::solve, lines 205-227
RankReturn(o) ==
    [o EXCEPT !.pc = "done", !.ret = o.solution_]

\* MPISolver::solve, lines 67-85: the loop condition and the start of an
\* iteration
RankLoopHead(o) ==
    IF ~o.found /\ o.threshold <= o.maxDepth
    THEN [o EXCEPT !.pc = "for", !.localSolution = <<>>, !.localMin = INT_MAX,
                   !.i = o.rank_, !.ran = [i \in Branches |-> 0]]
    ELSE RankReturn(o)

\* MPISolver::solve, lines 40-67
RankSolve ==
    /\ mpi.pc = "ready"
    /\ mpi' = IF isSolved(faces_)
              THEN [mpi EXCEPT !.pc = "done", !.ret = <<>>]
              ELSE RankLoopHead([mpi EXCEPT !.solution_ = <<>>,
                                            !.nodesExplored_ = 0,
                                            !.threshold = heuristic(faces_),
                                            !.found = FALSE])
    /\ UNCHANGED <<faces_, start, applied, undone, seq, slv, omp, http, scr, obj, hyb>>

\* lines 104-116 after idaSearch returned r for index o.i
RankForNext(o, r) ==
    IF r.ret = -1
    THEN [o EXCEPT !.localSolution = r.st.path, !.localMin = -1,
                   !.nodesExplored_ = r.st.nodesExplored_,
                   !.ran[o.i] = @ + 1, !.pc = "allreduce"]
    ELSE [o EXCEPT !.localMin = IF r.ret < @ THEN r.ret ELSE @,
                   !.nodesExplored_ = r.st.nodesExplored_,
                   !.ran[o.i] = @ + 1, !.i = @ + o.size_]

\* lines 85-116: one pass of `for (i = rank_; i < moves.size(); i += size_)`
RankFor ==
    /\ mpi.pc = "for"
    /\ mpi.i < Len(getBasicMoves)
    /\ mpi' = RankForNext(mpi,
                  MPISolver_idaSearch(
                      [cube |-> applyMove(faces_, getBasicMoves[mpi.i + 1]),
                       path |-> <<getBasicMoves[mpi.i + 1]>>,
                       nodesExplored_ |-> mpi.nodesExplored_],
                      1, mpi.threshold, getBasicMoves[mpi.i + 1]))
    /\ UNCHANGED <<faces_, start, applied, undone, seq, slv, omp, http, scr, obj, hyb>>

\* lines 124-203 on rank mpi.rank_: the collectives, with the other ranks'
\* contributions computed from their loops, then the loop condition
RankReduce ==
    /\ \/ mpi.pc = "allreduce"
       \/ mpi.pc = "for" /\ mpi.i >= Len(getBasicMoves)
    /\ LET Others == (0 .. (mpi.size_ - 1)) \ {mpi.rank_}
           loc == [r \in Others |->
                      MPISolver_rankLoop(faces_, mpi.threshold, r, mpi.size_,
                          [localMin |-> INT_MAX, localSolution |-> <<>>,
                           nodesExplored_ |-> 0])]
           globalMin == MinOf({mpi.localMin} \cup {loc[r].localMin : r \in Others})
           rankWithBest == MaxOf({-1}
                                 \cup (IF mpi.localMin = -1 THEN {mpi.rank_} ELSE {})
                                 \cup {r \in Others : loc[r].localMin = -1})
       IN  mpi' = IF globalMin = -1
                  THEN RankReturn([mpi EXCEPT !.found = TRUE,
                                              !.solution_ =
                                                  IF rankWithBest = mpi.rank_
                                                  THEN mpi.localSolution
                                                  ELSE loc[rankWithBest].localSolution])
                  ELSE IF globalMin = INT_MAX THEN RankReturn(mpi)
                  ELSE RankLoopHead([mpi EXCEPT !.threshold = globalMin])
    /\ UNCHANGED <<faces_, start, applied, undone, seq, slv, omp, http, scr, obj, hyb>>

NextTeams ==
    \/ NextOMP
    \/ NextHyb
    \/ RankSolve
    \/ RankFor
    \/ RankReduce

SpecTeams == InitTeams /\ [][NextTeams]_vars

(***************************************************************************)
(* SpecRace: the two teams of SpecTeams with the kernel left open.  Two    *)
(* first-ply branches reach a solved node in the same iteration only on    *)
(* cubes whose search is too deep to enumerate, so here the kernel's       *)
(* result for a branch is any value of its range: -1 with a path that      *)
(* starts with the branch's move, a next threshold above the current one,  *)
(* or INT_MAX when solutionFound_ is set.  Everything around the kernel    *)
(* (the hand-out of indices, the unlocked checks, the critical sections,   *)
(* the join, the loop condition) is as in SpecTeams.                       *)
(***************************************************************************)
MaxNextStep == 2   \* a kernel result is at most this much above threshold

\* the values idaSearchParallel / idaSearchHybrid can return for branch i
KernelRange(i, threshold, solutionFound_) ==
    {[temp |-> -1, localPath |-> <<getBasicMoves[i + 1]>>, nodes |-> 1]}
    \cup {[temp |-> threshold + k, localPath |-> <<getBasicMoves[i + 1]>>,
           nodes |-> 1] : k \in 1 .. MaxNextStep}
    \cup (IF solutionFound_
          THEN {[temp |-> INT_MAX, localPath |-> <<getBasicMoves[i + 1]>>,
                 nodes |-> 1]}
          ELSE {})

InitRace ==
    /\ start = reset
    /\ applied = << <<"U">>, <<"R">> >>
    /\ faces_ = applyMoves(reset, applied)
    /\ undone = 0
    /\ seq = NoSolve
    /\ slv = NoSolve
    /\ http = NoSolve
    /\ scr = NoSolve
    /\ obj = NoSolve
    /\ mpi = NoSolve
    /\ \/ /\ omp = NewOpenMPSolver(heuristic(faces_), 2, -1, 0)
          /\ hyb = [NewHybridSolver(0, 0, 1) EXCEPT !.pc = "none"]
       \/ /\ omp = [NewOpenMPSolver(0, 2, -1, 0) EXCEPT !.pc = "none"]
          /\ \E size_ \in 1 .. MaxRanks : \E rank_ \in 0 .. (size_ - 1) :
                hyb = NewHybridSolver(heuristic(faces_), rank_, size_)

\* OpenMPSolver::solve, lines 47-53, with the kernel's result left open
OmpSearchAny(t) ==
    /\ omp.pc = "loop"
    /\ omp.th[t].pc = "search"
    /\ \E b \in KernelRange(omp.th[t].i, omp.threshold, omp.solutionFound_) :
          omp' = OmpBranchDone(omp, t, b)
    /\ UNCHANGED <<faces_, start, applied, undone, seq, slv, hyb, http, scr, obj, mpi>>

\* HybridSolver::solve, lines 127-131, with the kernel's result left open
HybSearchAny(t) ==
    /\ hyb.pc = "loop"
    /\ hyb.th[t].pc = "search"
    /\ \E b \in KernelRange(hyb.th[t].i, hyb.threshold, hyb.solutionFound_) :
          hyb' = HybBranchDone(hyb, t, b)
    /\ UNCHANGED <<faces_, start, applied, undone, seq, slv, omp, http, scr, obj, mpi>>

\* HybJoin with the other ranks' contributions left open
HybJoinAny ==
    /\ hyb.pc = "loop"
    /\ hyb.next >= Len(getBasicMoves)
    /\ \A t \in 1 .. hyb.numThreads_ : hyb.th[t].pc = "idle"
    /\ \E b \in KernelRange(1 - hyb.rank_, hyb.threshold, FALSE) :
          hyb' \in HybridSolver_collectives(hyb,
                       [r \in (0 .. (hyb.size_ - 1)) \ {hyb.rank_} |->
                           [localMin |-> b.temp, localSolution |-> {b.localPath}]],
                       (0 .. (hyb.size_ - 1)) \ {hyb.rank_})
    /\ UNCHANGED <<faces_, start, applied, undone, seq, slv, omp, http, scr, obj, mpi>>

NextRace ==
    \/ \E numThreads \in 1 .. MaxThreads : OmpSolve(numThreads)
    \/ \E t \in 1 .. MaxThreads :
          /\ t <= omp.numThreads_
          /\ \/ OmpFetch(t)
             \/ OmpSearchAny(t)
             \/ OmpPost(t)
             \/ OmpCriticalSolution(t)
             \/ OmpCriticalMinNext(t)
    \/ OmpJoin
    \/ \E numThreads \in 1 .. MaxThreads : HybSolve(numThreads)
    \/ \E t \in 1 .. MaxThreads :
          /\ t <= hyb.numThreads_
          /\ \/ HybFetch(t)
             \/ HybSearchAny(t)
             \/ HybPost(t)
             \/ HybCriticalSolution(t)
             \/ HybCriticalLocalMin(t)
    \/ HybJoinAny

SpecRace == InitRace /\ [][NextRace]_vars

(***************************************************************************)
(* Strings of the server are sequences of one-character strings.           *)
(* std::string::find(pat, from): the first index at or after `from` where  *)
(* pat occurs, 0 for npos.  Indices are 1-based here.                      *)
(***************************************************************************)
find(s, pat, from) ==
    LET hits == {p \in from .. (Len(s) - Len(pat) + 1) :
                    SubSeq(s, p, p + Len(pat) - 1) = pat}
    IN  IF hits = {} THEN 0 ELSE CHOOSE p \in hits : \A q \in hits : p <= q

isspace == {" ", "\t", "\n", "\r"}
isdigit == {"0", "1", "2", "3", "4", "5", "6", "7", "8", "9"}

\* the first index at or after pos whose character is not in chars, Len(s) + 1
\* when there is none
skip(s, pos, chars) ==
    LET stops == {p \in pos .. Len(s) : s[p] \notin chars}
    IN  IF stops = {} THEN Len(s) + 1
        ELSE CHOOSE p \in stops : \A q \in stops : p <= q

(***************************************************************************)
(* HTTPServer::extractJSONValue.  json[json.length()] is the terminating   *)
(* null character, which is neither a quote nor a digit.                   *)
(***************************************************************************)
extractJSONValueAt(json, pos) ==
    IF pos <= Len(json) /\ json[pos] = "\""
    THEN LET end == find(json, <<"\"">>, pos + 1)
         IN  IF end # 0 THEN SubSeq(json, pos + 1, end - 1) ELSE <<>>
    ELSE SubSeq(json, pos, skip(json, pos, isdigit \cup {".", "-"}) - 1)

extractJSONValue(json, key) ==
    LET keyPos == find(json, <<"\"">> \o key \o <<"\"">>, 1)
        colon == IF keyPos = 0 THEN 0 ELSE find(json, <<":">>, keyPos)
    IN  IF keyPos = 0 \/ colon = 0 THEN <<>>
        ELSE extractJSONValueAt(json, skip(json, colon + 1, isspace))

(***************************************************************************)
(* std::stoi on a string of decimal digits (the only strings the model     *)
(* hands to it).                                                           *)
(***************************************************************************)
RECURSIVE stoi(_)
stoi(s) ==
    IF s = <<>> THEN 0
    ELSE 10 * stoi(SubSeq(s, 1, Len(s) - 1))
         + (CHOOSE d \in 0 .. 9 : ToString(d) = s[Len(s)])

(***************************************************************************)
(* RubiksCube::toString: the 54 stickers, faces in the order of enum Face, *)
(* each face in index order.                                               *)
(***************************************************************************)
toString(c) ==
    [k \in 1 .. 54 |-> c[(k - 1) \div 9][(k - 1) % 9]]

\* RubiksCube::fromString, lines 273-275: the length check throws
fromStringThrows(state) == Len(state) # 54

\* Mutant of RubiksCube_fromString: the stickers the string covers are
\* written before the length is checked.
RubiksCube_fromString_WritesFirst(c, state) ==
    [f \in Faces |-> [i \in Positions |->
        IF 9 * f + i + 1 <= Len(state) THEN state[9 * f + i + 1] ELSE c[f][i]]]

\* RubiksCube::fromString called on the cube c: the cube afterwards
RubiksCube_fromString(c, state) ==
    IF fromStringThrows(state) THEN c ELSE fromString(state)

\* Mutant of applyMoveThrows: the half-turn tokens are not recognised.
applyMoveThrows_HalfTurns(move) ==
    move \notin {getBasicMoves[k] : k \in 1 .. Len(getBasicMoves)}

\* RubiksCube::applyMove, line 201: no branch matches and the call throws
applyMoveThrows(move) == move \notin AllMoves

(***************************************************************************)
(* SpecHTTP: the HTTP server.  faces_ is currentCube_, reset by the        *)
(* constructor; every action is one POST request handled from             *)
(* HTTPServer::handlePOST to the response.  `start` is the cube after the  *)
(* last /cube/reset or accepted /cube/state, `applied` the moves applied   *)
(* to it since, and http the last request with its response:               *)
(* [pc, req, body, status, results, json] - `results` is the               *)
(* AlgorithmResult vector of solveCube and `json` the entries of its       *)
(* response.  Request bodies are JSON objects with one member.  The 20 s   *)
(* limit per backend is not modelled: no backend times out.  solveCube     *)
(* reads currentCube_ and its body only, so it is explored after the       *)
(* accepted requests that produce a cube and not after every request.      *)
(***************************************************************************)
MaxHttpMoves == 2      \* most moves applied since the last reset or state
MaxHttpScramble == 0   \* most moves applied to the cube of a /cube/solve

KeyMove == <<"m", "o", "v", "e">>
KeyMoves == <<"m", "o", "v", "e", "s">>
KeyState == <<"s", "t", "a", "t", "e">>
KeyMaxDepth == <<"m", "a", "x", "D", "e", "p", "t", "h">>

\* the body {"key":"value"} and the body {"key":digits}
QuotedBody(key, value) ==
    <<"{", "\"">> \o key \o <<"\"", ":", "\"">> \o value \o <<"\"", "}">>
NumberBody(key, n) ==
    <<"{", "\"">> \o key \o <<"\"", ":", ToString(n), "}">>

\* strings sent as the move of /cube/move: the 18 tokens and others
MoveInputs ==
    AllMoves \cup { <<>>, <<"X">>, <<"u">>, <<"U", "3">>, <<"U", "'", "'">>,
                    <<"U", " ">> }

\* a scrambled cube, two moves from solved
ScrambledCube ==
    applyMoves(reset, << <<"U">>, <<"R">> >>)

\* strings sent as the state of /cube/state, of length 54 and not
StateInputs ==
    { toString(reset), LabelChars, toString(ScrambledCube),
      toString(applyMove(reset, <<"F">>)),
      <<>>, SubSeq(LabelChars, 1, 53), LabelChars \o <<"Z">> }

Response(req, body, status) ==
    [pc |-> "done", req |-> req, body |-> body, status |-> status,
     results |-> <<>>, json |-> <<>>]

\* HTTPServer::HTTPServer
InitHTTP ==
    /\ faces_ = reset
    /\ start = reset
    /\ applied = <<>>
    /\ undone = 0
    /\ seq = NoSolve
    /\ slv = NoSolve
    /\ omp = NoSolve
    /\ http = NoSolve
    /\ scr = NoSolve
    /\ obj = NoSolve
    /\ hyb = NoSolve
    /\ mpi = NoSolve

\* HTTPServer::resetCube
HTTPServer_resetCube ==
    /\ faces_' = reset
    /\ start' = reset
    /\ applied' = <<>>
    /\ http' = Response("reset", <<>>, 200)
    /\ UNCHANGED <<undone, seq, slv, omp, scr, obj, hyb, mpi>>

\* HTTPServer::scrambleCube with RubiksCube::scramble: `moves` tokens drawn
\* from getAllMoves() are applied
HTTPServer_scrambleCube(body) ==
    /\ extractJSONValue(body, KeyMoves) # <<>>
    /\ Len(applied) + stoi(extractJSONValue(body, KeyMoves)) <= MaxHttpMoves
    /\ \E drawn \in [1 .. stoi(extractJSONValue(body, KeyMoves)) -> AllMoves] :
          /\ faces_' = applyMoves(faces_, drawn)
          /\ applied' = applied \o drawn
    /\ http' = Response("scramble", body, 200)
    /\ UNCHANGED <<start, undone, seq, slv, omp, scr, obj, hyb, mpi>>

\* HTTPServer::applyMove, lines 295-309, for the extracted string move
HTTPServer_applyMoveStatus(move) ==
    IF move = <<>> THEN 400
    ELSE IF applyMoveThrows(move) THEN 400
    ELSE 200

\* HTTPServer::applyMove: an empty move is answered at once, any other
\* is handed to currentCube_.applyMove in the try block
HTTPServer_applyMove(body) ==
    /\ Len(applied) < MaxHttpMoves
    /\ http' = Response("move", body,
                        HTTPServer_applyMoveStatus(extractJSONValue(body, KeyMove)))
    /\ faces_' = IF extractJSONValue(body, KeyMove) = <<>> THEN faces_
                 ELSE applyMove(faces_, extractJSONValue(body, KeyMove))
    /\ applied' = IF http'.status = 200
                  THEN Append(applied, extractJSONValue(body, KeyMove))
                  ELSE applied
    /\ UNCHANGED <<start, undone, seq, slv, omp, scr, obj, hyb, mpi>>

\* HTTPServer::setCubeState, lines 597-610, for the extracted string state
HTTPServer_setCubeStateStatus(state) ==
    IF state = <<>> \/ Len(state) # 54 THEN 400
    ELSE IF fromStringThrows(state) THEN 400
    ELSE 200

\* HTTPServer::setCubeState: an empty state or one of another length than
\* 54 is answered at once, any other is handed to currentCube_.fromString
\* in the try block
HTTPServer_setCubeState(body) ==
    /\ http' = Response("state", body,
                        HTTPServer_setCubeStateStatus(extractJSONValue(body, KeyState)))
    /\ faces_' = IF \/ extractJSONValue(body, KeyState) = <<>>
                    \/ Len(extractJSONValue(body, KeyState)) # 54
                 THEN faces_
                 ELSE RubiksCube_fromString(faces_, extractJSONValue(body, KeyState))
    /\ start' = IF http'.status = 200 THEN faces_' ELSE start
    /\ applied' = IF http'.status = 200 THEN <<>> ELSE applied
    /\ UNCHANGED <<undone, seq, slv, omp, scr, obj, hyb, mpi>>

DefaultMaxDepth == 20       \* maxDepth of a /cube/solve body that names none
OpenMPServerThreads == 4    \* OpenMPSolver solver(4)
HybridServerThreads == 2    \* HybridSolver solver(2)

\* HTTPServer::solveCube, lines 313-320
HTTPServer_maxDepth(body) ==
    IF extractJSONValue(body, KeyMaxDepth) = <<>>
    THEN DefaultMaxDepth
    ELSE stoi(extractJSONValue(body, KeyMaxDepth))

\* the AlgorithmResult a backend block of solveCube pushes, r being what
\* solver.solve(cube, maxDepth) left behind
AlgorithmResult(name, r) ==
    [name |-> name, solution |-> r.ret, nodes |-> r.nodesExplored_,
     success |-> r.ret # <<>>, timeout |-> FALSE, cube |-> r.cube]

\* the entry of the response's "results" array built from one AlgorithmResult
ResultJSON(result) ==
    IF result.success
    THEN [name |-> result.name, success |-> TRUE, timeout |-> result.timeout,
          solution |-> result.solution, moves |-> Len(result.solution),
          nodes |-> result.nodes]
    ELSE [name |-> result.name, success |-> FALSE, timeout |-> result.timeout,
          solution |-> <<>>, moves |-> 0, nodes |-> 0]

\* the response of solveCube for the results vector
HTTPServer_solveResponse(body, results) ==
    [pc |-> "done", req |-> "solve", body |-> body, status |-> 200,
     results |-> results,
     json |-> [i \in 1 .. Len(results) |-> ResultJSON(results[i])]]

\* the results vectors of solveCube: block 1 (Sequential) and block 2
\* (OpenMP), then blocks 3 (MPI) and 4 (Hybrid) when
\* MPISolver::IsInitialized(); size_ = 0: MPI is not initialized.  seqR and
\* mpiR are what the solve() calls left behind, O and H the possible
\* outcomes of the two multi-threaded calls.
HTTPServer_solveResults(size_, seqR, O, mpiR, H) ==
    IF size_ = 0
    THEN {<< AlgorithmResult("Sequential (IDA*)", seqR),
             AlgorithmResult("OpenMP (IDA*)", o) >> : o \in O}
    ELSE {<< AlgorithmResult("Sequential (IDA*)", seqR),
             AlgorithmResult("OpenMP (IDA*)", o),
             AlgorithmResult("MPI (IDA*)", mpiR),
             AlgorithmResult("Hybrid (MPI+OpenMP IDA*)", h) >> : o \in O, h \in H}

\* Mutant of HTTPServer_solveCubeState: the OpenMP backend is given the cube
\* the sequential backend has worked on.
HTTPServer_solveCubeState_SharedCube(body, size_, cubeState, maxDepth) ==
    \E results \in HTTPServer_solveResults(size_,
                       SequentialSolver_solve(fromString(cubeState), maxDepth),
                       OpenMPSolver_solve(
                           SequentialSolver_solve(fromString(cubeState), maxDepth).cube,
                           maxDepth, OpenMPServerThreads),
                       MPISolver_solve(fromString(cubeState), maxDepth, size_),
                       HybridSolver_solve(fromString(cubeState), maxDepth, size_,
                                          HybridServerThreads)) :
        http' = HTTPServer_solveResponse(body, results)

\* HTTPServer::solveCube for the captured cubeState
HTTPServer_solveCubeState(body, size_, cubeState, maxDepth) ==
    \E results \in HTTPServer_solveResults(size_,
                       SequentialSolver_solve(fromString(cubeState), maxDepth),
                       OpenMPSolver_solve(fromString(cubeState), maxDepth,
                                          OpenMPServerThreads),
                       MPISolver_solve(fromString(cubeState), maxDepth, size_),
                       HybridSolver_solve(fromString(cubeState), maxDepth, size_,
                                          HybridServerThreads)) :
        http' = HTTPServer_solveResponse(body, results)

\* HTTPServer::solveCube
HTTPServer_solveCube(body, size_) ==
    /\ Len(applied) <= MaxHttpScramble
    /\ IF http.pc = "none" THEN TRUE
       ELSE http.status = 200 /\ http.req # "solve"
    /\ HTTPServer_maxDepth(body) <= MaxSolveDepth \/ isSolved(faces_)
    /\ HTTPServer_solveCubeState(body, size_, toString(faces_),
                                 HTTPServer_maxDepth(body))
    /\ UNCHANGED <<faces_, start, applied, undone, seq, slv, omp, scr, obj, hyb, mpi>>

NextHTTP ==
    \/ HTTPServer_resetCube
    \/ \E n \in 0 .. MaxScramble : HTTPServer_scrambleCube(NumberBody(KeyMoves, n))
    \/ \E move \in MoveInputs : HTTPServer_applyMove(QuotedBody(KeyMove, move))
    \/ \E state \in StateInputs : HTTPServer_setCubeState(QuotedBody(KeyState, state))
    \/ \E maxDepth \in 0 .. MaxSolveDepth, size_ \in 0 .. MaxRanks :
          HTTPServer_solveCube(NumberBody(KeyMaxDepth, maxDepth), size_)
    \/ \E size_ \in 0 .. MaxRanks : HTTPServer_solveCube(<<"{", "}">>, size_)

SpecHTTP == InitHTTP /\ [][NextHTTP]_vars

(***************************************************************************)
(* SpecReuse: one solver object on which solve() is called several times.  *)
(* obj = [pc, backend, size_, numThreads_, nodesExplored_, calls, visited, *)
(* ret]: nodesExplored_ is the member getNodesExplored() returns, `calls`  *)
(* the number of solve() calls made, `visited` the number of search nodes  *)
(* the most recent call visited and `ret` the path it returned.  faces_ is *)
(* the cube of the most recent call, after the call.                       *)
(***************************************************************************)
MaxCalls == 3   \* most solve() calls on the object

\* the cubes the caller passes: solved, one move and two moves from solved
ReuseCubes ==
    { reset, applyMove(reset, <<"U">>), applyMove(reset, <<"F", "'">>),
      ScrambledCube }

\* a newly constructed solver: Solver's member initialiser nodesExplored_ = 0
Construct(backend, size_, numThreads_) ==
    /\ obj.pc = "none"
    /\ obj' = [pc |-> "ready", backend |-> backend, size_ |-> size_,
               numThreads_ |-> numThreads_, nodesExplored_ |-> 0, calls |-> 0,
               visited |-> 0, ret |-> <<>>]
    /\ UNCHANGED <<faces_, start, applied, undone, seq, slv, omp, http, scr, hyb, mpi>>

\* the results of solve(cube, maxDepth) of the backend on an unsolved cube:
\* the lines after the already-solved check reset every member the search
\* reads, so they are those of a newly constructed solver
Solver_search(backend, cube, maxDepth, size_, numThreads_) ==
    CASE backend = "sequential" -> {SequentialSolver_solve(cube, maxDepth)}
      [] backend = "idastar" -> {IDAStarSolver_solve(cube, maxDepth)}
      [] backend = "mpi" -> {MPISolver_solve(cube, maxDepth, size_)}
      [] backend = "openmp" -> OpenMPSolver_solve(cube, maxDepth, numThreads_)
      [] backend = "hybrid" -> HybridSolver_solve(cube, maxDepth, size_, numThreads_)

\* solve() on the existing object o: on a solved cube it returns {} before
\* nodesExplored_ = 0 is reached, and no node is visited; otherwise the
\* counter is zeroed and counts the nodes of this call.  R is the set of
\* results of the search on an unsolved cube.
Solver_solve(o, cube, R) ==
    IF isSolved(cube)
    THEN {[o EXCEPT !.calls = @ + 1, !.visited = 0, !.ret = <<>>]}
    ELSE {[o EXCEPT !.calls = @ + 1, !.visited = r.nodesExplored_,
                    !.ret = r.ret, !.nodesExplored_ = r.nodesExplored_] : r \in R}

\* the caller's cube after solve(): the sequential solver works in place
Solver_cubeAfter(backend, cube, maxDepth) ==
    IF backend = "sequential" THEN SequentialSolver_solve(cube, maxDepth).cube
    ELSE cube

\* solver.solve(cube, maxDepth) on a cube the caller built
SolveAgain(cube, maxDepth) ==
    /\ obj.pc = "ready"
    /\ obj.calls < MaxCalls
    /\ obj' \in Solver_solve(obj, cube,
                   Solver_search(obj.backend, cube, maxDepth, obj.size_,
                                 obj.numThreads_))
    /\ faces_' = Solver_cubeAfter(obj.backend, cube, maxDepth)
    /\ UNCHANGED <<start, applied, undone, seq, slv, omp, http, scr, hyb, mpi>>

InitReuse ==
    /\ faces_ = reset
    /\ start = reset
    /\ applied = <<>>
    /\ undone = 0
    /\ seq = NoSolve
    /\ slv = NoSolve
    /\ omp = NoSolve
    /\ http = NoSolve
    /\ scr = NoSolve
    /\ obj = NoSolve
    /\ hyb = NoSolve
    /\ mpi = NoSolve

NextReuse ==
    \/ \E backend \in {"sequential", "idastar"} : Construct(backend, 1, 1)
    \/ \E size_ \in 1 .. MaxRanks : Construct("mpi", size_, 1)
    \/ \E numThreads_ \in 1 .. MaxThreads : Construct("openmp", 1, numThreads_)
    \/ \E size_ \in 1 .. MaxRanks, numThreads_ \in 1 .. MaxThreads :
          Construct("hybrid", size_, numThreads_)
    \/ \E cube \in ReuseCubes, maxDepth \in 0 .. MaxSolveDepth :
          SolveAgain(cube, maxDepth)

SpecReuse == InitReuse /\ [][NextReuse]_vars

(***************************************************************************)
(* SpecScramble: testScramble of tests/test_solver.cpp - a cube is         *)
(* constructed solved and scramble(20) is called on it, one loop pass per  *)
(* step.  scr = [pc, moves, i]: the argument and the loop counter of       *)
(* RubiksCube::scramble.  dis(gen) can return every index of allMoves;     *)
(* the passes explored are those that draw a token of the U or D face, so  *)
(* that all 20 passes can be followed.                                     *)
(***************************************************************************)
ScrambleMoves == 20   \* cube.scramble(20)

\* the values of allMoves[dis(gen)] that are followed
ScrambleDraws ==
    { <<"U">>, <<"U", "'">>, <<"U", "2">>, <<"D">>, <<"D", "'">>, <<"D", "2">> }

InitScramble ==
    /\ faces_ = reset
    /\ start = reset
    /\ applied = <<>>
    /\ undone = 0
    /\ seq = NoSolve
    /\ slv = NoSolve
    /\ omp = NoSolve
    /\ http = NoSolve
    /\ scr = NoSolve
    /\ obj = NoSolve
    /\ hyb = NoSolve
    /\ mpi = NoSolve

\* cube.scramble(moves): the call, up to the loop
scramble_call(moves) ==
    /\ scr.pc = "none"
    /\ scr' = [pc |-> "loop", moves |-> moves, i |-> 0]
    /\ UNCHANGED <<faces_, start, applied, undone, seq, slv, omp, http, obj, hyb, mpi>>

\* one pass of the loop: applyMove(allMoves[dis(gen)])
scramble_pass(move) ==
    /\ scr.pc = "loop"
    /\ scr.i < scr.moves
    /\ faces_' = applyMove(faces_, move)
    /\ scr' = [scr EXCEPT !.i = @ + 1]
    /\ UNCHANGED <<start, applied, undone, seq, slv, omp, http, obj, hyb, mpi>>

\* the loop condition fails and scramble returns
scramble_return ==
    /\ scr.pc = "loop"
    /\ scr.i >= scr.moves
    /\ scr' = [scr EXCEPT !.pc = "done"]
    /\ UNCHANGED <<faces_, start, applied, undone, seq, slv, omp, http, obj, hyb, mpi>>

NextScramble ==
    \/ scramble_call(ScrambleMoves)
    \/ \E move \in ScrambleDraws : scramble_pass(move)
    \/ scramble_return

SpecScramble == InitScramble /\ [][NextScramble]_vars

(***************************************************************************)
(* SpecMPI: the processes of an MPI run of the server.  Rank 0 is the      *)
(* HTTP server: for a /cube/solve request it broadcasts the command for    *)
(* MPISolver, runs MPISolver::solve, broadcasts the command for            *)
(* HybridSolver and runs HybridSolver::solve.  The other ranks run the     *)
(* loop of main().  mpi.ops is the sequence of collectives called on       *)
(* MPI_COMM_WORLD: op n is the n-th collective of every process, `what`    *)
(* names the call site, val holds what the processes inside have put in.   *)
(* A process whose n-th call is another call than op n has pc "mismatch".  *)
(* An all-reduce is left when every rank has put its value in, a           *)
(* broadcast when the root has; the root of a broadcast does not wait.     *)
(* Every evaluation of `elapsed > TIME_LIMIT` can go either way, on each   *)
(* process by itself.  With mpi.open the result of a rank's search loop    *)
(* is left open as in SpecRace, so that several ranks can hold -1.         *)
(* p[r].hist lists what the solve() calls of rank r returned.              *)
(***************************************************************************)
MaxRequests == 1   \* /cube/solve requests in a behaviour

Ranks(m) == 0 .. (m.size_ - 1)

\* a process before its first solve(): rank 0 in the server, the others at
\* the command broadcast of main()
NewProcess(rank_) ==
    [pc |-> IF rank_ = 0 THEN "idle" ELSE "wait", k |-> 0, solveCommand |-> 0,
     maxDepth |-> 0, cube |-> reset, threshold |-> 0, found |-> FALSE,
     localMin |-> INT_MAX, localSolution |-> <<>>, temps |-> <<>>,
     solution_ |-> <<>>, rankWithBest |-> -1, j |-> 0, hist |-> <<>>]

InitMPI ==
    /\ start = reset
    /\ applied \in OmpScrambles
    /\ faces_ = applyMoves(reset, applied)
    /\ undone = 0
    /\ seq = NoSolve
    /\ slv = NoSolve
    /\ omp = NoSolve
    /\ http = NoSolve
    /\ scr = NoSolve
    /\ obj = NoSolve
    /\ hyb = NoSolve
    /\ \E size_ \in 1 .. MaxRanks, open \in BOOLEAN :
          mpi = [pc |-> "run", size_ |-> size_, open |-> open, ops |-> <<>>,
                 requests |-> 0,
                 p |-> [r \in 0 .. (size_ - 1) |-> NewProcess(r)]]

\* solve() returns path on process q of rank r: main()'s loop goes back to
\* the command broadcast, the server goes on to the hybrid backend or to
\* the response
MpiReturn(q, r, path) ==
    [q EXCEPT !.pc = IF r # 0 THEN "wait"
                     ELSE IF q.solveCommand = 1 THEN "bcast" ELSE "idle",
              !.solveCommand = IF r = 0 /\ @ = 1 THEN 2 ELSE @,
              !.hist = Append(@, [solveCommand |-> q.solveCommand, ret |-> path,
                                  found |-> q.found, localMin |-> q.localMin,
                                  localSolution |-> q.localSolution,
                                  rankWithBest |-> q.rankWithBest,
                                  cube |-> q.cube, maxDepth |-> q.maxDepth,
                                  k |-> q.k])]

\* the while condition of MPISolver::solve (line 67) and HybridSolver::solve
\* (line 90; solutionFound_ is set exactly when localMin is -1)
MpiLoopHead(q, r) ==
    IF ~q.found /\ q.threshold <= q.maxDepth
       /\ ~(q.solveCommand = 2 /\ q.localMin = -1)
    THEN [q EXCEPT !.pc = "iter"]
    ELSE MpiReturn(q, r, q.solution_)

\* MPISolver::solve lines 40-67, HybridSolver::solve lines 61-90, on a new
\* solver object
MpiStartSolve(q, r) ==
    IF isSolved(q.cube)
    THEN MpiReturn([q EXCEPT !.found = FALSE, !.localMin = INT_MAX,
                             !.localSolution = <<>>, !.rankWithBest = -1,
                             !.solution_ = <<>>], r, <<>>)
    ELSE MpiLoopHead([q EXCEPT !.solution_ = <<>>, !.found = FALSE,
                               !.localMin = INT_MAX, !.localSolution = <<>>,
                               !.rankWithBest = -1, !.temps = <<>>,
                               !.threshold = heuristic(q.cube)], r)

\* process r calls its next collective `what` with root `root` and, when
\* post, puts v in; q is the process once inside the call
MpiEnter(m, r, what, root, post, v, q) ==
    LET n == m.p[r].k + 1
    IN  IF n > Len(m.ops)
        THEN [m EXCEPT !.ops = Append(@, [what |-> what, root |-> root,
                                          val |-> IF post THEN (r :> v)
                                                  ELSE << >>]),
                       !.p[r] = [q EXCEPT !.k = n]]
        ELSE IF m.ops[n].what = what /\ m.ops[n].root = root
        THEN [m EXCEPT !.ops[n].val = IF post THEN (r :> v) @@ @ ELSE @,
                       !.p[r] = [q EXCEPT !.k = n]]
        ELSE [m EXCEPT !.p[r].pc = "mismatch"]

\* the collective process r is in can be left
MpiComplete(m, r) ==
    LET op == m.ops[m.p[r].k]
    IN  IF op.root = -1 THEN DOMAIN op.val = Ranks(m)
        ELSE op.root \in DOMAIN op.val

\* HTTPServer::solveCube is called: cubeState and maxDepth of the request
HttpSolve(maxDepth) ==
    /\ mpi.p[0].pc = "idle"
    /\ mpi.requests < MaxRequests
    /\ mpi' = [mpi EXCEPT !.requests = @ + 1,
                          !.p[0] = [@ EXCEPT !.pc = "bcast", !.solveCommand = 1,
                                             !.maxDepth = maxDepth,
                                             !.cube = fromString(toString(faces_))]]
    /\ UNCHANGED <<faces_, start, applied, undone, seq, slv, omp, http, scr, obj, hyb>>

\* http_server.cpp lines 423-436 and 466-479: the four broadcasts of the
\* root, which do not wait, then solver.solve(cube, maxDepth)
RootBroadcast ==
    /\ mpi.p[0].pc = "bcast"
    /\ LET q == mpi.p[0]
           state == toString(q.cube)
           cmd == [what |-> "solveCommand", root |-> 0, val |-> (0 :> q.solveCommand)]
           dep == [what |-> "maxDepth", root |-> 0, val |-> (0 :> q.maxDepth)]
           len == [what |-> "stateLength", root |-> 0, val |-> (0 :> Len(state))]
           buf == [what |-> "stateBuffer", root |-> 0, val |-> (0 :> state)]
       IN  mpi' = IF Len(mpi.ops) > q.k
                  THEN [mpi EXCEPT !.p[0].pc = "mismatch"]
                  ELSE [mpi EXCEPT !.ops = @ \o <<cmd, dep, len, buf>>,
                                   !.p[0] = MpiStartSolve([q EXCEPT !.k = @ + 4], 0)]
    /\ UNCHANGED <<faces_, start, applied, undone, seq, slv, omp, http, scr, obj, hyb>>

\* main.cpp lines 79-105: the four broadcasts as a worker receives them,
\* the cube built from the buffer, and the solve() of the commanded backend
WorkerReceive(w) ==
    /\ w # 0
    /\ w < mpi.size_
    /\ mpi.p[w].pc = "wait"
    /\ Len(mpi.ops) > mpi.p[w].k
    /\ LET q == mpi.p[w]
           n == q.k + 1
       IN  mpi' = IF mpi.ops[n].what # "solveCommand"
                  THEN [mpi EXCEPT !.p[w].pc = "mismatch"]
                  ELSE [mpi EXCEPT !.p[w] =
                           MpiStartSolve(
                               [q EXCEPT !.k = @ + 4,
                                         !.solveCommand = mpi.ops[n].val[0],
                                         !.maxDepth = mpi.ops[n + 1].val[0],
                                         !.cube = fromString(
                                             SubSeq(mpi.ops[n + 3].val[0], 1,
                                                    mpi.ops[n + 2].val[0]))], w)]
    /\ UNCHANGED <<faces_, start, applied, undone, seq, slv, omp, http, scr, obj, hyb>>

\* MPISolver::solve lines 98: the kernel's value for every index of rank r
MPISolver_branchValues(cube, threshold, r, size_) ==
    [i \in RankBranches(r, size_) |->
        MPISolver_idaSearch([cube |-> applyMove(cube, getBasicMoves[i + 1]),
                             path |-> <<getBasicMoves[i + 1]>>,
                             nodesExplored_ |-> 0],
                            1, threshold, getBasicMoves[i + 1]).ret]

\* the search loop of rank r: MPISolver::solve lines 80-116, or the
\* parallel loop of HybridSolver::solve lines 103-162 with its team of
\* HybridServerThreads threads
MpiLocal(q, r, size_) ==
    IF q.solveCommand = 1
    THEN {[MPISolver_rankLoop(q.cube, q.threshold, r, size_,
               [localMin |-> INT_MAX, localSolution |-> <<>>,
                nodesExplored_ |-> 0])
           EXCEPT !.nodesExplored_ =
                      MPISolver_branchValues(q.cube, q.threshold, r, size_)]}
    ELSE LET L == HybridSolver_rankLocal(
                      [i \in Branches |->
                          HybridSolver_branch(q.cube, q.threshold, i, -1)],
                      r, size_, HybridServerThreads)
         IN  {[localMin |-> L.localMin, localSolution |-> path,
               nodesExplored_ |-> <<>>] : path \in L.localSolution}

\* the results a search loop can have when the kernel is left open
MpiLocalAny(q, r) ==
    {[localMin |-> -1, nodesExplored_ |-> <<>>,
      localSolution |-> IF r = 0 THEN <<getBasicMoves[r + 1]>>
                        ELSE <<getBasicMoves[r + 1], getBasicMoves[5]>>]}
    \cup {[localMin |-> q.threshold + d, localSolution |-> <<>>,
           nodesExplored_ |-> <<>>] : d \in 1 .. MaxNextStep}

\* process r with the result l of its search loop calls
\* MPI_Allreduce(&localMin, &globalMin, MPI_MIN): mpi_solver.cpp line 125,
\* hybrid_solver.cpp line 171
MpiReduceMin(m, r, l) ==
    MpiEnter(m, r, "globalMin", -1, TRUE, l.localMin,
             [m.p[r] EXCEPT !.pc = "globalMin", !.localMin = l.localMin,
                            !.localSolution = l.localSolution,
                            !.temps = l.nodesExplored_])

MpiSearch(r) ==
    /\ r < mpi.size_
    /\ mpi.p[r].pc = "iter"
    /\ ~mpi.open
    /\ \E l \in MpiLocal(mpi.p[r], r, mpi.size_) : mpi' = MpiReduceMin(mpi, r, l)
    /\ UNCHANGED <<faces_, start, applied, undone, seq, slv, omp, http, scr, obj, hyb>>

MpiSearchAny(r) ==
    /\ r < mpi.size_
    /\ mpi.p[r].pc = "iter"
    /\ mpi.open
    /\ \E l \in MpiLocalAny(mpi.p[r], r) : mpi' = MpiReduceMin(mpi, r, l)
    /\ UNCHANGED <<faces_, start, applied, undone, seq, slv, omp, http, scr, obj, hyb>>

\* the value of rank 0 in place of the reduction
MPI_MIN_OfRoot(val) == val[0]

\* MPI_Allreduce(MPI_MIN) over the values put in
MPI_MIN(val) == MinOf({val[r] : r \in DOMAIN val})

\* the lowest rank in place of MPI_MAX
MPI_MAX_Lowest(val) == MinOf({val[r] : r \in DOMAIN val} \ {-1})

\* MPI_Allreduce(MPI_MAX) over the values put in
MPI_MAX(val) == MaxOf({val[r] : r \in DOMAIN val})

\* mpi_solver.cpp lines 130-143 and 182-203, hybrid_solver.cpp lines
\* 176-188 and 226-246: after the MIN all-reduce
MpiAfterMin(r) ==
    /\ r < mpi.size_
    /\ mpi.p[r].pc = "globalMin"
    /\ MpiComplete(mpi, r)
    /\ LET q == mpi.p[r]
           globalMin == MPI_MIN(mpi.ops[q.k].val)
       IN  IF globalMin = -1
           THEN mpi' = MpiEnter(mpi, r, "rankWithBest", -1, TRUE,
                           IF q.localMin = -1 THEN r ELSE -1,
                           [q EXCEPT !.pc = "rankWithBest", !.found = TRUE])
           ELSE \E late \in BOOLEAN :
                   mpi' = [mpi EXCEPT !.p[r] =
                              IF late \/ globalMin = INT_MAX
                              THEN MpiReturn(q, r, q.solution_)
                              ELSE MpiLoopHead([q EXCEPT !.threshold = globalMin], r)]
    /\ UNCHANGED <<faces_, start, applied, undone, seq, slv, omp, http, scr, obj, hyb>>

\* lines 149-157 / 193-201: after the MAX all-reduce, the broadcast of the
\* solution size from rankWithBest
MpiAfterMax(r) ==
    /\ r < mpi.size_
    /\ mpi.p[r].pc = "rankWithBest"
    /\ MpiComplete(mpi, r)
    /\ LET q == mpi.p[r]
           rankWithBest == MPI_MAX(mpi.ops[q.k].val)
           solution_ == IF r = rankWithBest THEN q.localSolution ELSE q.solution_
       IN  mpi' = MpiEnter(mpi, r, "solutionSize", rankWithBest,
                           r = rankWithBest, Len(solution_),
                           [q EXCEPT !.pc = "solutionSize",
                                     !.rankWithBest = rankWithBest,
                                     !.solution_ = solution_])
    /\ UNCHANGED <<faces_, start, applied, undone, seq, slv, omp, http, scr, obj, hyb>>

\* strncpy(moveStr, solution_[j].c_str(), 9) into the zeroed char[10], read
\* back as std::string(moveStr)
MpiMoveStr(move) ==
    SubSeq(move, 1, IF Len(move) < 9 THEN Len(move) ELSE 9)

\* lines 167-172 / 211-216: process q of rank r at `for (j ...)` with j the
\* next index (from 1): the broadcast of move j, or the end of the loop,
\* after which both solvers leave their while loop
MpiMoveLoop(m, r, q, j) ==
    IF j <= Len(q.solution_)
    THEN MpiEnter(m, r, "moveStr", q.rankWithBest, r = q.rankWithBest,
                  IF r = q.rankWithBest THEN MpiMoveStr(q.solution_[j]) ELSE <<>>,
                  [q EXCEPT !.pc = "moveStr", !.j = j])
    ELSE [m EXCEPT !.p[r] = MpiReturn(q, r, q.solution_)]

\* lines 157-167 / 201-211: the size has arrived; solution_.resize
MpiAfterSize(r) ==
    /\ r < mpi.size_
    /\ mpi.p[r].pc = "solutionSize"
    /\ MpiComplete(mpi, r)
    /\ LET q == mpi.p[r]
           solutionSize == mpi.ops[q.k].val[q.rankWithBest]
       IN  mpi' = MpiMoveLoop(mpi, r,
                      IF r = q.rankWithBest THEN q
                      ELSE [q EXCEPT !.solution_ =
                               [i \in 1 .. solutionSize |->
                                   IF i <= Len(q.solution_) THEN q.solution_[i]
                                   ELSE <<>>]],
                      1)
    /\ UNCHANGED <<faces_, start, applied, undone, seq, slv, omp, http, scr, obj, hyb>>

\* lines 172-176 / 216-220: move j has arrived
MpiAfterMove(r) ==
    /\ r < mpi.size_
    /\ mpi.p[r].pc = "moveStr"
    /\ MpiComplete(mpi, r)
    /\ LET q == mpi.p[r]
       IN  mpi' = MpiMoveLoop(mpi, r,
                      IF r = q.rankWithBest THEN q
                      ELSE [q EXCEPT !.solution_[q.j] =
                               mpi.ops[q.k].val[q.rankWithBest]],
                      q.j + 1)
    /\ UNCHANGED <<faces_, start, applied, undone, seq, slv, omp, http, scr, obj, hyb>>

NextMPI ==
    \/ \E maxDepth \in 0 .. MaxSolveDepth : HttpSolve(maxDepth)
    \/ RootBroadcast
    \/ \E r \in 0 .. (MaxRanks - 1) : WorkerReceive(r)
    \/ \E r \in 0 .. (MaxRanks - 1) : MpiSearch(r)
    \/ \E r \in 0 .. (MaxRanks - 1) : MpiSearchAny(r)
    \/ \E r \in 0 .. (MaxRanks - 1) : MpiAfterMin(r)
    \/ \E r \in 0 .. (MaxRanks - 1) : MpiAfterMax(r)
    \/ \E r \in 0 .. (MaxRanks - 1) : MpiAfterSize(r)
    \/ \E r \in 0 .. (MaxRanks - 1) : MpiAfterMove(r)

SpecMPI == InitMPI /\ [][NextMPI]_vars

(***************************************************************************)
(* SpecKernel: single calls of the five search kernels.  A cube is built   *)
(* by a short scramble; a kernel is then called as its solver calls it in  *)
(* the middle of a search: on the cube after the moves of a path prefix,   *)
(* with that prefix on the path stack, g the length of the prefix and      *)
(* lastMove its last move (the empty string for the empty prefix), under   *)
(* a bound.  slv records the call: the cube and path stack at entry and    *)
(* at return, and the value returned.  The drivers' next step is there     *)
(* for IDAStarSolver: a root call that returned a next threshold within    *)
(* the bounds is followed by the root call with that threshold.            *)
(***************************************************************************)
MaxKernelScramble == 2   \* moves of the scramble
MaxPrefix == 1           \* length of the path prefix of a call
MaxBound == 3            \* largest bound of a call
MaxKernelFuel == 3       \* reads of a set solutionFound_ that return false

KernelPrefixes ==
    UNION {[1 .. n -> {getBasicMoves[i] : i \in 1 .. Len(getBasicMoves)}] :
              n \in 0 .. MaxPrefix}

InitKernel ==
    /\ faces_ = reset
    /\ start = reset
    /\ applied = <<>>
    /\ undone = 0
    /\ seq = NoSolve
    /\ slv = NoSolve
    /\ omp = NoSolve
    /\ http = NoSolve
    /\ scr = NoSolve
    /\ obj = NoSolve
    /\ hyb = NoSolve
    /\ mpi = NoSolve

KernelScramble(m) ==
    /\ slv.pc = "none"
    /\ Len(applied) < MaxKernelScramble
    /\ faces_' = applyMove(faces_, m)
    /\ applied' = Append(applied, m)
    /\ UNCHANGED <<start, undone, seq, slv, omp, http, scr, obj, hyb, mpi>>

\* the record of a kernel call: entry is [cube, path], r what the kernel
\* operator returned, path1 the path stack and solution_ the stored solution
\* at return, fuel the reads of solutionFound_ that return false (-1: all)
KernelCalled(backend, entry, bound, prev, fuel, r, path1, solution_) ==
    [pc |-> "kernel", backend |-> backend, cube0 |-> entry.cube,
     path0 |-> entry.path, g |-> Len(entry.path),
     lastMove |-> IF entry.path = <<>> THEN <<>> ELSE entry.path[Len(entry.path)],
     bound |-> bound, prev |-> prev, fuel |-> fuel, ret |-> r.ret,
     cube1 |-> r.st.cube,
     path1 |-> path1, solution_ |-> solution_,
     nodes |-> r.st.nodesExplored_]

\* the cube and path stack of a call in the middle of a search
KernelEntry(prefix) == [cube |-> applyMoves(faces_, prefix), path |-> prefix]

LastOf(path) == IF path = <<>> THEN <<>> ELSE path[Len(path)]

\* SequentialSolver::search(cube, depth, lastMove) with maxDepth_ = bound
CallSequential(prefix, bound) ==
    /\ slv.pc = "none"
    /\ LET e == KernelEntry(prefix)
           r == SequentialSolver_search(
                    [cube |-> e.cube, solution_ |-> <<>>, currentPath_ |-> prefix,
                     maxDepth_ |-> bound, nodesExplored_ |-> 0],
                    Len(prefix), LastOf(prefix))
       IN  slv' = KernelCalled("sequential", e, bound, -1, -1,
                               [r EXCEPT !.ret = IF @ THEN -1 ELSE INT_MAX],
                               r.st.currentPath_, r.st.solution_)
    /\ UNCHANGED <<faces_, start, applied, undone, seq, omp, http, scr, obj, hyb, mpi>>

\* IDAStarSolver::search(cube, g, bound, lastMove)
IDAStarSolver_searchCall(e, bound, prev) ==
    LET r == IDAStarSolver_search(
                 [cube |-> e.cube, solution_ |-> <<>>, currentPath_ |-> e.path,
                  nodesExplored_ |-> 0],
                 Len(e.path), bound, LastOf(e.path))
    IN  KernelCalled("idastar", e, bound, prev, -1, r, r.st.currentPath_,
                     r.st.solution_)

CallIDAStar(prefix, bound) ==
    /\ slv.pc = "none"
    /\ slv' = IDAStarSolver_searchCall(KernelEntry(prefix), bound, -1)
    /\ UNCHANGED <<faces_, start, applied, undone, seq, omp, http, scr, obj, hyb, mpi>>

\* IDAStarSolver::solve lines 25-46: threshold_ = t and the next root call
CallIDAStarAgain ==
    /\ slv.pc = "kernel"
    /\ slv.backend = "idastar"
    /\ slv.g = 0
    /\ slv.ret # -1
    /\ slv.ret # INT_MAX
    /\ slv.ret <= MaxBound
    /\ slv.cube1 = slv.cube0
    /\ slv' = IDAStarSolver_searchCall([cube |-> slv.cube0, path |-> <<>>],
                                       slv.ret, slv.bound)
    /\ UNCHANGED <<faces_, start, applied, undone, seq, omp, http, scr, obj, hyb, mpi>>

\* MPISolver::idaSearch(cube, g, threshold, lastMove, path, ...)
CallMPI(prefix, bound) ==
    /\ slv.pc = "none"
    /\ LET e == KernelEntry(prefix)
           r == MPISolver_idaSearch(
                    [cube |-> e.cube, path |-> prefix, nodesExplored_ |-> 0],
                    Len(prefix), bound, LastOf(prefix))
       IN  slv' = KernelCalled("mpi", e, bound, -1, -1, r, r.st.path, r.st.path)
    /\ UNCHANGED <<faces_, start, applied, undone, seq, omp, http, scr, obj, hyb, mpi>>

\* OpenMPSolver::idaSearchParallel; solutionFound_ reads as set after
\* `fuel` reads (-1: never)
CallOpenMP(prefix, bound, fuel) ==
    /\ slv.pc = "none"
    /\ LET e == KernelEntry(prefix)
           r == OpenMPSolver_idaSearchParallel(
                    [cube |-> e.cube, path |-> prefix, nodesExplored_ |-> 0,
                     fuel |-> fuel],
                    Len(prefix), bound, LastOf(prefix))
       IN  slv' = KernelCalled("openmp", e, bound, -1, fuel, r, r.st.path, r.st.path)
    /\ UNCHANGED <<faces_, start, applied, undone, seq, omp, http, scr, obj, hyb, mpi>>

\* HybridSolver::idaSearchHybrid
CallHybrid(prefix, bound, fuel) ==
    /\ slv.pc = "none"
    /\ LET e == KernelEntry(prefix)
           r == HybridSolver_idaSearchHybrid(
                    [cube |-> e.cube, path |-> prefix, nodesExplored_ |-> 0,
                     fuel |-> fuel],
                    Len(prefix), bound, LastOf(prefix))
       IN  slv' = KernelCalled("hybrid", e, bound, -1, fuel, r, r.st.path, r.st.path)
    /\ UNCHANGED <<faces_, start, applied, undone, seq, omp, http, scr, obj, hyb, mpi>>

NextKernel ==
    \/ \E m \in {getBasicMoves[i] : i \in 1 .. Len(getBasicMoves)} : KernelScramble(m)
    \/ \E prefix \in KernelPrefixes, bound \in 0 .. MaxBound :
          CallSequential(prefix, bound)
    \/ \E prefix \in KernelPrefixes, bound \in 0 .. MaxBound :
          CallIDAStar(prefix, bound)
    \/ CallIDAStarAgain
    \/ \E prefix \in KernelPrefixes, bound \in 0 .. MaxBound :
          CallMPI(prefix, bound)
    \/ \E prefix \in KernelPrefixes, bound \in 0 .. MaxBound,
          fuel \in -1 .. MaxKernelFuel : CallOpenMP(prefix, bound, fuel)
    \/ \E prefix \in KernelPrefixes, bound \in 0 .. MaxBound,
          fuel \in -1 .. MaxKernelFuel : CallHybrid(prefix, bound, fuel)

SpecKernel == InitKernel /\ [][NextKernel]_vars

(***************************************************************************)
(* SpecTerm: the outer loops of the single-process solvers, one step per   *)
(* iteration.  The input is the solved cube, or a colouring no move        *)
(* sequence produces (as POST /cube/state may set it), after a short       *)
(* scramble.  slv is the running call: `bound` the depth or threshold of   *)
(* the next iteration, `searched` the one of the iteration before (-1:     *)
(* none), `exit` why the loop was left.  The wall-clock checks of the      *)
(* sequential and the OpenMP loop are an input of the step (`late`).       *)
(***************************************************************************)
MaxTermScramble == 1   \* moves of the scramble

\* the solved colouring with the stickers (f1, i1) and (f2, i2) exchanged
SwapStickers(c, f1, i1, f2, i2) ==
    [c EXCEPT ![f1][i1] = c[f2][i2], ![f2][i2] = c[f1][i1]]

\* colourings that are not reachable from the solved cube: two stickers
\* exchanged; one edge flipped
Injected ==
    { SwapStickers(reset, UP, 0, FRONT, 8),
      SwapStickers(reset, UP, 7, FRONT, 1) }

InitTerm ==
    /\ faces_ = reset
    /\ start = reset
    /\ applied = <<>>
    /\ undone = 0
    /\ seq = NoSolve
    /\ slv = NoSolve
    /\ omp = NoSolve
    /\ http = NoSolve
    /\ scr = NoSolve
    /\ obj = NoSolve
    /\ hyb = NoSolve
    /\ mpi = NoSolve

\* RubiksCube::fromString on a 54-character string of the six colours
TermInject(c) ==
    /\ slv.pc = "none"
    /\ applied = <<>>
    /\ faces_ = reset
    /\ faces_' = c
    /\ UNCHANGED <<start, applied, undone, seq, slv, omp, http, scr, obj, hyb, mpi>>

TermScramble(m) ==
    /\ slv.pc = "none"
    /\ Len(applied) < MaxTermScramble
    /\ faces_' = applyMove(faces_, m)
    /\ applied' = Append(applied, m)
    /\ UNCHANGED <<start, undone, seq, slv, omp, http, scr, obj, hyb, mpi>>

\* the largest g of a node of the pruned tree below (c, g): the tree of
\* SequentialSolver::search under maxDepth_ = bound (kind "sequential"), or
\* of a threshold kernel under bound.  An iteration that finds no solution
\* calls the kernel on every node of the tree; one that finds a solution,
\* on some of them.
RECURSIVE TreeDepth(_, _, _, _, _)
TreeDepth(kind, c, g, bound, lastMove) ==
    IF \/ isSolved(c)
       \/ (kind = "sequential" /\ g >= bound)
       \/ (kind # "sequential" /\ g + heuristic(c) > bound)
    THEN g
    ELSE MaxOf({TreeDepth(kind, applyMove(c, getBasicMoves[k]), g + 1, bound,
                          getBasicMoves[k]) :
                   k \in {j \in 1 .. Len(getBasicMoves) :
                             ~isRedundantMove(lastMove, getBasicMoves[j])}})

\* the largest g of a kernel call of an iteration of `backend` under bound:
\* the sequential and IDA* loops call the kernel on the cube with g = 0, the
\* OpenMP loop on the cube after each first move with g = 1
IterationDepth(backend, cube, bound) ==
    IF backend = "openmp"
    THEN MaxOf({TreeDepth(backend, applyMove(cube, getBasicMoves[k]), 1, bound,
                          getBasicMoves[k]) : k \in 1 .. Len(getBasicMoves)})
    ELSE TreeDepth(backend, cube, 0, bound, <<>>)

\* the pass of the outer loop of `backend` on cube under bound: whether it
\* finds a solution, the paths it can store as the solution (one for each
\* schedule of the threads), the value the kernel hands to the loop as the
\* next bound, and the largest g of a kernel call
Pass(backend, cube, bound, numThreads_) ==
    IF backend = "sequential"
    THEN LET r == SequentialSolver_search(
                      [cube |-> cube, solution_ |-> <<>>, currentPath_ |-> <<>>,
                       maxDepth_ |-> bound, nodesExplored_ |-> 0], 0, <<>>)
         IN  [found |-> r.ret, paths |-> {r.st.solution_}, next |-> bound + 1,
              deepest |-> IterationDepth(backend, cube, bound)]
    ELSE IF backend = "idastar"
    THEN LET r == IDAStarSolver_search(
                      [cube |-> cube, solution_ |-> <<>>, currentPath_ |-> <<>>,
                       nodesExplored_ |-> 0], 0, bound, <<>>)
         IN  [found |-> r.ret = -1, paths |-> {r.st.solution_}, next |-> r.ret,
              deepest |-> IterationDepth(backend, cube, bound)]
    ELSE LET res == [i \in Branches |-> OpenMPSolver_branch(cube, bound, i, -1)]
             S == {i \in Branches : res[i].temp = -1}
         IN  [found |-> S # {},
              paths |-> {res[j].localPath : j \in ParallelForWinners(S, numThreads_)},
              next |-> MinOf({INT_MAX} \cup {res[i].temp : i \in Branches}),
              deepest |-> IterationDepth(backend, cube, bound)]

\* a call of solve() in its loop.  passes[b] is the pass under bound b on
\* the input: a pass that finds no solution leaves the cube as it found it,
\* so what a pass does depends on the input and its bound only, and the
\* steps of the loop read it here.
Looping(backend, input, maxDepth, numThreads_, bound) ==
    [pc |-> "loop", backend |-> backend, input |-> input,
     maxDepth |-> maxDepth, numThreads_ |-> numThreads_, bound |-> bound,
     searched |-> -1, deepest |-> -1, iterations |-> 0, exit |-> "",
     ret |-> <<>>,
     passes |-> [b \in 0 .. maxDepth |-> Pass(backend, input, b, numThreads_)]]

Returned(s, exit, ret) == [s EXCEPT !.pc = "returned", !.exit = exit, !.ret = ret]

\* Mutant of Iterated: the bound of the next pass is that of the pass before.
Iterated_SameBound(s, bound) ==
    [s EXCEPT !.searched = s.bound, !.iterations = (@ + 1) % 2,
              !.deepest = s.passes[s.bound].deepest]

\* the pass under s.bound is over and the loop goes on with bound
Iterated(s, bound) ==
    [s EXCEPT !.searched = s.bound, !.bound = bound, !.iterations = @ + 1,
              !.deepest = s.passes[s.bound].deepest]

\* solve() up to its loop: SequentialSolver::solve lines 5-28,
\* IDAStarSolver::solve lines 8-25, OpenMPSolver::solve lines 13-37
TermSolve(backend, maxDepth, numThreads_) ==
    /\ slv.pc = "none"
    /\ slv' = IF isSolved(faces_)
              THEN Returned(Looping(backend, faces_, maxDepth, numThreads_, 0),
                            "solved", <<>>)
              ELSE Looping(backend, faces_, maxDepth, numThreads_,
                           IF backend = "sequential" THEN 1
                           ELSE heuristic(faces_))
    /\ UNCHANGED <<faces_, start, applied, undone, seq, omp, http, scr, obj, hyb, mpi>>

\* SequentialSolver::solve, one pass of the loop of lines 28-60 and, when
\* the loop is left, lines 62-86
TermSequential(late) ==
    /\ slv.pc = "loop"
    /\ slv.backend = "sequential"
    /\ IF slv.bound > slv.maxDepth THEN slv' = Returned(slv, "bound", <<>>)
       ELSE IF slv.passes[slv.bound].found
       THEN \E path \in slv.passes[slv.bound].paths :
               slv' = Returned(Iterated(slv, slv.bound), "found", path)
       ELSE IF late
       THEN slv' = Returned(Iterated(slv, slv.bound), "time", <<>>)
       ELSE slv' = Iterated(slv, slv.bound + 1)
    /\ UNCHANGED <<faces_, start, applied, undone, seq, omp, http, scr, obj, hyb, mpi>>

\* IDAStarSolver::solve, one pass of the loop of lines 25-47 and, when the
\* loop is left, lines 49-53
TermIDAStar ==
    /\ slv.pc = "loop"
    /\ slv.backend = "idastar"
    /\ IF slv.bound > slv.maxDepth THEN slv' = Returned(slv, "bound", <<>>)
       ELSE IF slv.passes[slv.bound].found
       THEN \E path \in slv.passes[slv.bound].paths :
               slv' = Returned(Iterated(slv, slv.bound), "found", path)
       ELSE IF slv.passes[slv.bound].next = INT_MAX
       THEN slv' = Returned(Iterated(slv, slv.bound), "none", <<>>)
       ELSE slv' = Iterated(slv, slv.passes[slv.bound].next)
    /\ UNCHANGED <<faces_, start, applied, undone, seq, omp, http, scr, obj, hyb, mpi>>

\* OpenMPSolver::solve, one pass of the loop of lines 37-89 with the
\* parallel loop taken as a whole, and, when the loop is left, lines 91-106
TermOpenMP(late) ==
    /\ slv.pc = "loop"
    /\ slv.backend = "openmp"
    /\ IF slv.bound > slv.maxDepth THEN slv' = Returned(slv, "bound", <<>>)
       ELSE IF slv.passes[slv.bound].found
       THEN \E path \in slv.passes[slv.bound].paths :
               slv' = Returned(Iterated(slv, slv.bound), "found", path)
       ELSE IF late
       THEN slv' = Returned(Iterated(slv, slv.bound), "time", <<>>)
       ELSE IF slv.passes[slv.bound].next = INT_MAX
       THEN slv' = Returned(Iterated(slv, slv.bound), "none", <<>>)
       ELSE slv' = Iterated(slv, slv.passes[slv.bound].next)
    /\ UNCHANGED <<faces_, start, applied, undone, seq, omp, http, scr, obj, hyb, mpi>>

TermIterate ==
    \/ \E late \in BOOLEAN : TermSequential(late)
    \/ TermIDAStar
    \/ \E late \in BOOLEAN : TermOpenMP(late)

NextTerm ==
    \/ \E c \in Injected : TermInject(c)
    \/ \E m \in {getBasicMoves[i] : i \in 1 .. Len(getBasicMoves)} : TermScramble(m)
    \/ \E backend \in {"sequential", "idastar", "openmp"},
          maxDepth \in -1 .. MaxSolveDepth, numThreads_ \in 1 .. MaxThreads :
          TermSolve(backend, maxDepth, numThreads_)
    \/ \E late \in BOOLEAN : TermSequential(late)
    \/ TermIDAStar
    \/ \E late \in BOOLEAN : TermOpenMP(late)

\* a solver in its loop runs on: the loops are sequential code (the threads
\* of the parallel loop are joined before the pass ends)
SpecTerm == InitTerm /\ [][NextTerm]_vars /\ WF_vars(TermIterate)

(***************************************************************************)
(* The moves of `applied` that are still in effect.                        *)
(***************************************************************************)
InEffect == SubSeq(applied, 1, Len(applied) - undone)

FaceLetters == {"U", "D", "F", "B", "L", "R"}

(***************************************************************************)
(* C1: for a cube scrambled from solved with moves of the 18-token set,    *)
(* every backend's solve(), called with a maxDepth of at least the         *)
(* scramble's quarter-turn length (a half-turn counting two), returns a    *)
(* path that, applied to a copy of the input, gives a solved cube.         *)
(***************************************************************************)
C1_EveryBackendSolves ==
    \A r \in Calls :
        (r.input = applyMoves(reset, applied) /\ r.maxDepth >= QuarterTurns(applied))
            => isSolved(applyMoves(r.input, r.ret))

(***************************************************************************)
(* C2: soundness.  Whenever solve() of a backend returns a non-empty path, *)
(* the moves of the path applied in order to a copy of the input cube      *)
(* taken before the call give a solved cube.                               *)
(***************************************************************************)
C2_Soundness ==
    \A r \in Calls :
        r.ret # <<>> => isSolved(applyMoves(r.input, r.ret))

C2_Witness ==
    /\ seq.pc = "done"
    /\ Len(seq.ret) = 2
    /\ slv.pc = "done"
    /\ slv.backend = "hybrid"
    /\ slv.size_ = 2
    /\ slv.numThreads_ = 2
    /\ Len(slv.ret) = 2
    /\ ~isSolved(slv.input)
    /\ isSolved(applyMoves(slv.input, slv.ret))

(***************************************************************************)
(* C3: after SequentialSolver::solve has returned a solution s for an      *)
(* unsolved cube, applying s with applyMoves to the cube object that was   *)
(* passed to solve() leaves that object solved.                            *)
(***************************************************************************)
C3_ApplyToSolvedObject ==
    (seq.pc = "applied" /\ ~isSolved(seq.input) /\ seq.ret # <<>>)
        => isSolved(faces_)

(***************************************************************************)
(* C4: for a scramble of k moves of the 18-token set in which no move is   *)
(* followed by its inverse, every backend (given a maxDepth of at least    *)
(* the scramble's quarter-turn length) returns a path that solves the cube *)
(* and has at most k moves.                                                *)
(***************************************************************************)
C4_LengthAtMostScramble ==
    \A r \in Calls :
        ( /\ r.input = applyMoves(reset, applied)
          /\ \A i \in 1 .. (Len(applied) - 1) :
                applied[i + 1] # getInverseMove(applied[i])
          /\ r.maxDepth >= QuarterTurns(applied) )
            => /\ isSolved(applyMoves(r.input, r.ret))
               /\ Len(r.ret) <= Len(applied)

(***************************************************************************)
(* C5: getManhattanDistance is non-negative, 0 on the solved cube, and for *)
(* every state reached from solved never exceeds the number of             *)
(* quarter-turns that solve it (here: of any move sequence that produced   *)
(* the state, whose inverse solves it).                                    *)
(***************************************************************************)
C5_Admissible ==
    /\ getManhattanDistance(faces_) >= 0
    /\ isSolved(faces_) => getManhattanDistance(faces_) = 0
    /\ (start = reset /\ undone = 0)
          => getManhattanDistance(faces_) <= QuarterTurns(applied)

(***************************************************************************)
(* C6: run on the same input cube with the same maxDepth (at least the     *)
(* scramble's quarter-turn length), the sequential backend and each of the *)
(* IDA* backends (IDAStarSolver, OpenMP, MPI, hybrid) return solving       *)
(* paths, and the paths have the same length.                              *)
(***************************************************************************)
C6_SameLengthSolvingPaths ==
    (slv.pc = "done" /\ seq.maxDepth >= QuarterTurns(applied))
        => /\ isSolved(applyMoves(seq.input, seq.ret))
           /\ isSolved(applyMoves(slv.input, slv.ret))
           /\ Len(slv.ret) = Len(seq.ret)

C8_SolvedInput ==
    \A r \in Calls :
        isSolved(r.input)
            => /\ r.ret = <<>>
               /\ r.nodesExplored_ = 0
               /\ r.cube = r.input

C8_Witness ==
    /\ Len(applied) = 2
    /\ seq.pc = "done"
    /\ slv.pc = "done"
    /\ slv.backend = "openmp"
    /\ slv.numThreads_ = 2
    /\ slv.maxDepth = MaxSolveDepth
    /\ isSolved(slv.input)
    /\ slv.ret = <<>>
    /\ slv.nodesExplored_ = 0

(***************************************************************************)
(* C9: a move followed by its inverse restores every sticker, in every     *)
(* state; and undoing the applied moves last-first with their inverses     *)
(* walks back through the states the cube went through, ending at the      *)
(* starting state.                                                         *)
(***************************************************************************)
C9_InverseRestores ==
    /\ \A m \in AllMoves :
          applyMove(applyMove(faces_, m), getInverseMove(m)) = faces_
    /\ faces_ = applyMoves(start, InEffect)
    /\ undone = Len(applied) => faces_ = start

C9_Witness ==
    /\ start = LabelledCube
    /\ Len(applied) = 3
    /\ applied[3] = <<"F", "2">>
    /\ undone = 3
    /\ faces_ = start

(***************************************************************************)
(* C10: for every face X, in every state: X four times is the identity,    *)
(* X2 equals X twice and X' equals X three times.                          *)
(***************************************************************************)
C10_QuarterTurnAlgebra ==
    /\ \A X \in FaceLetters :
          /\ applyMoves(faces_, << <<X>>, <<X>>, <<X>>, <<X>> >>) = faces_
          /\ applyMove(faces_, <<X, "2">>) = applyMoves(faces_, << <<X>>, <<X>> >>)
          /\ applyMove(faces_, <<X, "'">>)
                = applyMoves(faces_, << <<X>>, <<X>>, <<X>> >>)
    /\ \A X \in FaceLetters :
          (undone = 0 /\ applied = << <<X>>, <<X>>, <<X>> >>)
              => /\ faces_ = applyMove(start, <<X, "'">>)
                 /\ applyMove(faces_, <<X>>) = start

C10_Witness ==
    /\ start = LabelledCube
    /\ undone = 0
    /\ applied = << <<"B">>, <<"B">>, <<"B">> >>
    /\ faces_ = applyMove(start, <<"B", "'">>)
    /\ faces_ # start

(***************************************************************************)
(* C11: after any sequence of applyMove calls with tokens of the 18-token  *)
(* set (the undoing calls included), the sticker at position 4 of each of  *)
(* the six faces is the one that was there before the sequence.            *)
(***************************************************************************)
C11_CentresFixed ==
    \A f \in Faces : faces_[f][4] = start[f][4]

C11_Witness ==
    /\ start = LabelledCube
    /\ undone = 0
    /\ Len(applied) = MaxMoves
    /\ \A f \in Faces : faces_[f] # start[f]
    /\ \A f \in Faces : faces_[f][4] = start[f][4]

\* the six colours of reset() and the number of stickers of colour col on c
Colours == {"W", "Y", "G", "B", "O", "R"}
Census(c, col) ==
    Cardinality({p \in Faces \X Positions : c[p[1]][p[2]] = col})

(* C12: on a server cube that was put into the solved colouring and then changed only by the reset, scramble and move requests (reset(), scramble(), applyMoves(), applyMove()), each of the six colours W, Y, G, B, O, R is on exactly 9 stickers. *)
C12_ColourCensus ==
    start = reset => \A col \in Colours : Census(faces_, col) = 9

C12_Witness ==
    /\ start = reset
    /\ http.pc = "done"
    /\ http.req = "scramble"
    /\ Len(applied) = MaxHttpMoves
    /\ \A f \in Faces : faces_[f] # reset[f]
    /\ \A col \in Colours : Census(faces_, col) = 9

(* C13: toString() of the server's cube has 54 symbols, the nine of U first, then those of D, F, B, L and R, each face row by row (sticker i of face f is symbol 9f+i+1); fromString applied to that string gives the same cube, and the cube a /cube/solve request builds from the captured string for its OpenMP backend equals the server's cube. *)
C13_ToStringRoundTrip ==
    /\ Len(toString(faces_)) = 54
    /\ \A i \in Positions :
          /\ toString(faces_)[i + 1] = faces_[UP][i]
          /\ toString(faces_)[9 + i + 1] = faces_[DOWN][i]
          /\ toString(faces_)[18 + i + 1] = faces_[FRONT][i]
          /\ toString(faces_)[27 + i + 1] = faces_[BACK][i]
          /\ toString(faces_)[36 + i + 1] = faces_[LEFT][i]
          /\ toString(faces_)[45 + i + 1] = faces_[RIGHT][i]
    /\ fromString(toString(faces_)) = faces_
    /\ IF http.pc = "done"
       THEN http.req = "solve" => http.results[2].cube = faces_
       ELSE TRUE

C13_Witness ==
    /\ http.pc = "done"
    /\ http.req = "solve"
    /\ toString(faces_) = LabelChars
    /\ http.results[2].cube = faces_
    /\ fromString(toString(faces_)) = faces_

(* C14: a POST /cube/move whose move string is one of the 18 tokens is answered 200 and the server's cube becomes applyMove of it; for any other move string (the empty one included) applyMove raises, the answer is 400 and the server's cube keeps every sticker. *)
C14_InvalidMoveRejected ==
    [][ (http'.pc = "done" /\ http'.req = "move")
        => IF extractJSONValue(http'.body, KeyMove) \in AllMoves
           THEN /\ http'.status = 200
                /\ ~applyMoveThrows(extractJSONValue(http'.body, KeyMove))
                /\ faces_' = applyMove(faces_, extractJSONValue(http'.body, KeyMove))
           ELSE /\ http'.status = 400
                /\ faces_' = faces_ ]_vars

C14_Witness ==
    /\ http.pc = "done"
    /\ http.req = "move"
    /\ http.status = 400
    /\ extractJSONValue(http.body, KeyMove) = <<"U", "3">>
    /\ Len(applied) = 1
    /\ faces_ = applyMove(LabelledCube, applied[1])

(* C15: fromString raises exactly for strings whose length is not 54 and then leaves every sticker of the cube it was called on as it was; a POST /cube/state with a state of 54 characters is answered 200 and the server's cube becomes that state, and with a state of any other length (the empty one included) it is answered 400 and the server's cube is unchanged. *)
C15_BadStateRejected ==
    [][ /\ (http'.pc = "done" /\ http'.req = "state")
           => IF Len(extractJSONValue(http'.body, KeyState)) = 54
              THEN /\ http'.status = 200
                   /\ faces_' = fromString(extractJSONValue(http'.body, KeyState))
              ELSE /\ http'.status = 400
                   /\ faces_' = faces_
        /\ \A state \in StateInputs :
              /\ fromStringThrows(state) <=> Len(state) # 54
              /\ fromStringThrows(state)
                    => RubiksCube_fromString(faces_', state) = faces_' ]_vars

C15_Witness ==
    /\ http.pc = "done"
    /\ http.req = "state"
    /\ http.status = 400
    /\ Len(extractJSONValue(http.body, KeyState)) = 53
    /\ Len(applied) = 1
    /\ faces_ = applyMove(reset, applied[1])

(* C16: in the response to a /cube/solve on an unsolved cube, every entry of "results" whose backend returned no solution carries success false together with a node count that is not zero. *)
C16_FailureCarriesNodes ==
    IF http.pc = "done"
    THEN (http.req = "solve" /\ ~isSolved(faces_))
            => \A i \in 1 .. Len(http.json) :
                  http.results[i].solution = <<>>
                     => /\ http.json[i].success = FALSE
                        /\ http.json[i].nodes # 0
    ELSE TRUE

(* C17: a /cube/solve request leaves the server's cube as it was, and every backend works on a cube of its own built from the state captured at the start of the request: the cube of each backend after the sequential one is the server's cube, and what the OpenMP backend returns is a result of OpenMPSolver::solve on the server's cube, whatever the sequential backend did to its cube before. *)
C17_SolveLeavesServerCube ==
    [][ (http'.pc = "done" /\ http'.req = "solve")
        => /\ faces_' = faces_
           /\ Len(http'.results) \in {2, 4}
           /\ \A i \in 2 .. Len(http'.results) : http'.results[i].cube = faces_
           /\ \E r \in OpenMPSolver_solve(faces_, HTTPServer_maxDepth(http'.body),
                                          OpenMPServerThreads) :
                 /\ r.ret = http'.results[2].solution
                 /\ r.nodesExplored_ = http'.results[2].nodes ]_vars

C17_Witness ==
    /\ http.pc = "done"
    /\ http.req = "solve"
    /\ ~isSolved(faces_)
    /\ Len(http.results) = 4
    /\ http.results[1].success
    /\ isSolved(http.results[1].cube)
    /\ \A i \in 2 .. 4 : http.results[i].success /\ http.results[i].cube = faces_

(* C18: when the cube is the solved cube after one quarter-turn m of the 12 basic moves, every solve() call on it with maxDepth at least 1, in each of the five backends, returns the one-move path <<getInverseMove(m)>>. *)
C18_QuarterTurnSolvedByInverse ==
    (Len(applied) = 1 /\ applied[1] \in {getBasicMoves[k] : k \in 1 .. Len(getBasicMoves)})
       => \A r \in Calls :
             (r.input = applyMove(reset, applied[1]) /\ r.maxDepth >= 1)
                => r.ret = << getInverseMove(applied[1]) >>

C18_Witness ==
    /\ applied = << <<"U">> >>
    /\ seq.pc = "done"
    /\ seq.maxDepth = 1
    /\ seq.ret = << <<"U", "'">> >>
    /\ slv.pc = "done"
    /\ slv.backend = "hybrid"
    /\ slv.size_ = MaxRanks
    /\ slv.numThreads_ = MaxThreads
    /\ slv.ret = << <<"U", "'">> >>

(* C19: after every solve() call on a solver object, getNodesExplored() is the number of search nodes that call visited - zero when the call was made on an already-solved cube. *)
C19_NodesOfLastCall ==
    IF obj.pc = "ready"
    THEN obj.calls > 0 => obj.nodesExplored_ = obj.visited
    ELSE TRUE

(* C20: when scramble(20), called on the solved cube, has returned, isSolved() is false. *)
C20_ScrambleLeavesUnsolved ==
    IF scr.pc = "done"
    THEN (scr.moves = ScrambleMoves /\ start = reset) => ~isSolved(faces_)
    ELSE TRUE

(* C21: isSolved() of the server's cube is true exactly when each of the six faces shows a single sticker value (all nine equal the one at position 4); it is true for the cube the constructor leaves and in the state after every /cube/reset, whatever the cube was before. *)
C21_IsSolvedIffUniform ==
    /\ isSolved(faces_) <=> \A f \in Faces : {faces_[f][i] : i \in Positions} = {faces_[f][4]}
    /\ IF http.pc = "done"
       THEN http.req = "reset" => isSolved(faces_)
       ELSE isSolved(faces_)

C21_Witness ==
    /\ http.pc = "done"
    /\ http.req = "reset"
    /\ faces_ = reset
    /\ isSolved(faces_)

\* some sequence of exactly d basic quarter-turns, pruned or not, takes c to
\* a solved cube; the shortest quarter-turn solution of c has length d
RECURSIVE QuarterTurnPath(_, _)
QuarterTurnPath(c, d) ==
    IF d = 0 THEN isSolved(c)
    ELSE \E k \in 1 .. Len(getBasicMoves) :
            QuarterTurnPath(applyMove(c, getBasicMoves[k]), d - 1)

ShortestQuarterTurns(c, d) ==
    /\ QuarterTurnPath(c, d)
    /\ \A e \in 0 .. (d - 1) : ~QuarterTurnPath(c, e)

(* C22: when the shortest quarter-turn solution of a cube has length d, the search with the redundancy pruning, run with depth limit d, reaches a solved node along a path of length d: the sequential solve(cube, d) returns a path of d moves that solves the cube. *)
C22_PruningKeepsComplete ==
    IF seq.pc = "done" /\ slv.pc = "none"
    THEN ShortestQuarterTurns(seq.input, seq.maxDepth)
            => /\ Len(seq.ret) = seq.maxDepth
               /\ isSolved(applyMoves(seq.input, seq.ret))
    ELSE TRUE

\* some sequence of exactly d basic quarter-turns that respects the pruning
\* (no move on the face of the move before it, nor on the opposite face)
\* takes c to a solved cube; lastMove is the move that led to c
RECURSIVE PrunedPath(_, _, _)
PrunedPath(c, d, lastMove) ==
    IF d = 0 THEN isSolved(c)
    ELSE \E k \in 1 .. Len(getBasicMoves) :
            /\ ~isRedundantMove(lastMove, getBasicMoves[k])
            /\ PrunedPath(applyMove(c, getBasicMoves[k]), d - 1, getBasicMoves[k])

RespectsPruning(path) ==
    /\ \A k \in 1 .. Len(path) : path[k] \in {getBasicMoves[j] : j \in 1 .. Len(getBasicMoves)}
    /\ \A k \in 1 .. (Len(path) - 1) : ~isRedundantMove(path[k], path[k + 1])

TeamStep(o, p) == o.pc = "loop" /\ p.pc = "loop" /\ p.next >= o.next

\* the threads of team o that are inside the solution critical section
InCriticalSolution(o) ==
    {t \in 1 .. o.numThreads_ : o.th[t].pc = "critical_solution"}

StoredOnce(o, p, buf, bufNext) ==
    TeamStep(o, p) =>
        /\ o.solutionFound_ => p.solutionFound_ /\ bufNext = buf
        /\ bufNext # buf =>
              /\ ~o.solutionFound_ /\ p.solutionFound_
              /\ \E t \in InCriticalSolution(o) :
                    /\ o.th[t].temp = -1
                    /\ bufNext = o.th[t].localPath
                    /\ p.th[t].pc = "idle"
        /\ \A t \in InCriticalSolution(o) :
              p.th[t].pc = "idle" => p.solutionFound_

C24_SolutionStoredOnce ==
    [][/\ StoredOnce(omp, omp', omp.solution_, omp'.solution_)
       /\ StoredOnce(hyb, hyb', hyb.localSolution, hyb'.localSolution)]_vars

\* two threads of a hybrid rank returned -1 in one iteration: the first has
\* stored its path, the second is about to find the flag set
C24_Witness ==
    /\ hyb.pc = "loop"
    /\ hyb.solutionFound_
    /\ \E t \in InCriticalSolution(hyb) :
          /\ hyb.th[t].temp = -1
          /\ hyb.th[t].localPath # hyb.localSolution

(***************************************************************************)
(* C25: in OpenMPSolver, when every index of an iteration has been handed  *)
(* out, every thread is through and no solution was found, minNext is the  *)
(* minimum of the values the kernel returns for the 12 first-ply branches  *)
(* at the iteration's threshold, however the threads interleaved and       *)
(* whichever earlier value of minNext the unlocked checks saw.             *)
(***************************************************************************)
\* the parallel loop of o is over: the implicit barrier has been reached
AtJoin(o) ==
    /\ o.pc = "loop"
    /\ o.next >= Len(getBasicMoves)
    /\ \A t \in 1 .. o.numThreads_ : o.th[t].pc = "idle"

C25_MinNextIsMinimum ==
    IF omp.pc = "loop"
    THEN (AtJoin(omp) /\ ~omp.solutionFound_)
            => omp.minNext =
                  MinOf({OpenMPSolver_branch(faces_, omp.threshold, i, -1).temp :
                            i \in Branches})
    ELSE TRUE

\* two threads, and minNext was lowered twice in the iteration
C25_Witness ==
    /\ AtJoin(omp)
    /\ ~omp.solutionFound_
    /\ omp.numThreads_ = MaxThreads
    /\ Cardinality(omp.written) >= 3
    /\ omp.minNext < INT_MAX
    /\ omp.minNext = MinOf(omp.written)

(***************************************************************************)
(* C26: cooperative cancellation in OpenMPSolver and HybridSolver.  A      *)
(* kernel that a thread runs while solutionFound_ is set returns INT_MAX   *)
(* (the abort value) to the parallel loop; a thread holding INT_MAX        *)
(* enters no critical section; minNext / localMin never becomes the next   *)
(* threshold as INT_MAX.                                                   *)
(***************************************************************************)
C26_Step(o, p) ==
    /\ TeamStep(o, p) =>
          \A t \in 1 .. o.numThreads_ :
              /\ (o.solutionFound_ /\ o.th[t].pc = "search" /\ p.th[t].pc = "post")
                    => p.th[t].temp = INT_MAX
              /\ (o.th[t].pc = "post" /\ o.th[t].temp = INT_MAX)
                    => p.th[t].pc \in {"post", "idle"}
    /\ p.threshold < INT_MAX

C26_Cancellation ==
    [][C26_Step(omp, omp') /\ C26_Step(hyb, hyb')]_vars

\* the parts of C26 that do not rest on when the flag is seen: a thread
\* holding INT_MAX publishes nothing, and no iteration starts at INT_MAX
C26_AbortNeverAdopted ==
    [][/\ \A t \in 1 .. MaxThreads :
             /\ (TeamStep(omp, omp') /\ t <= omp.numThreads_
                 /\ omp.th[t].pc = "post" /\ omp.th[t].temp = INT_MAX)
                   => omp'.th[t].pc \in {"post", "idle"}
             /\ (TeamStep(hyb, hyb') /\ t <= hyb.numThreads_
                 /\ hyb.th[t].pc = "post" /\ hyb.th[t].temp = INT_MAX)
                   => hyb'.th[t].pc \in {"post", "idle"}
       /\ omp'.threshold < INT_MAX
       /\ hyb'.threshold < INT_MAX]_vars

(***************************************************************************)
(* C27: when a rank's solve() has returned from an iteration whose global  *)
(* minimum was -1, the publishing rank it used is the highest rank whose   *)
(* own search loop ended with -1, the path it returned is that rank's      *)
(* local path, and every rank that has returned from the same solve()      *)
(* returned the same path.                                                 *)
(***************************************************************************)
\* rank x is in or past its s-th solve()
MpiInSolve(x, s) ==
    \/ s <= Len(mpi.p[x].hist)
    \/ /\ s = Len(mpi.p[x].hist) + 1
       /\ mpi.p[x].pc \in {"iter", "globalMin", "rankWithBest", "solutionSize", "moveStr"}

\* localMin and localSolution of rank x in the last iteration of its s-th solve()
MpiSolveRec(x, s) ==
    IF s <= Len(mpi.p[x].hist) THEN mpi.p[x].hist[s]
    ELSE [localMin |-> mpi.p[x].localMin, localSolution |-> mpi.p[x].localSolution]

MpiSolvedRanks(s) ==
    {x \in DOMAIN mpi.p : MpiInSolve(x, s) /\ MpiSolveRec(x, s).localMin = -1}

C27_SamePathFromHighestRank ==
    IF mpi.pc = "run"
    THEN \A r \in DOMAIN mpi.p : \A s \in 1 .. Len(mpi.p[r].hist) :
            LET h == mpi.p[r].hist[s]
            IN  h.found =>
                  /\ MpiSolvedRanks(s) # {}
                  /\ h.rankWithBest = MaxOf(MpiSolvedRanks(s))
                  /\ h.ret = MpiSolveRec(h.rankWithBest, s).localSolution
                  /\ \A q \in DOMAIN mpi.p :
                        s <= Len(mpi.p[q].hist) => mpi.p[q].hist[s].ret = h.ret
    ELSE TRUE

\* both ranks solved in the same iteration and both have returned: rank 0
\* returned the path of rank 1 and not its own
C27_Witness ==
    /\ mpi.pc = "run"
    /\ mpi.size_ = 2
    /\ \E s \in 1 .. Len(mpi.p[0].hist) :
          /\ s <= Len(mpi.p[1].hist)
          /\ mpi.p[0].hist[s].found
          /\ mpi.p[0].hist[s].localMin = -1
          /\ mpi.p[1].hist[s].localMin = -1
          /\ mpi.p[0].hist[s].localSolution # mpi.p[0].hist[s].ret
          /\ mpi.p[0].hist[s].ret = mpi.p[1].hist[s].localSolution
          /\ Len(mpi.p[0].hist[s].ret) = 2

(***************************************************************************)
(* C28: in MPISolver::solve, when every rank has put its localMin into the *)
(* MIN all-reduce of an iteration, the result is -1 exactly when the       *)
(* kernel returns -1 for a first move of some rank, and otherwise it is    *)
(* the minimum of the kernel's values over all twelve first moves of all   *)
(* ranks; a rank that goes on to the next iteration has that result as its *)
(* threshold.                                                              *)
(***************************************************************************)
\* every rank is inside the MIN all-reduce of the same iteration of MPISolver
MpiAllInMin ==
    /\ mpi.pc = "run"
    /\ ~mpi.open
    /\ \A x \in DOMAIN mpi.p :
          /\ mpi.p[x].pc = "globalMin"
          /\ mpi.p[x].solveCommand = 1
          /\ mpi.p[x].k = mpi.p[0].k

\* the kernel's values of the iteration: temps of every rank
MpiBranchValues ==
    UNION {{mpi.p[x].temps[i] : i \in RankBranches(x, mpi.size_)} : x \in DOMAIN mpi.p}

C28_GlobalMin ==
    IF mpi.pc = "run"
    THEN /\ MpiAllInMin =>
               LET globalMin == MPI_MIN(mpi.ops[mpi.p[0].k].val)
               IN  /\ globalMin = -1 <=> -1 \in MpiBranchValues
                   /\ globalMin # -1 =>
                         /\ UNION {RankBranches(x, mpi.size_) : x \in DOMAIN mpi.p} = Branches
                         /\ globalMin = MinOf(MpiBranchValues \cup {INT_MAX})
         /\ \A x \in DOMAIN mpi.p :
               (/\ ~mpi.open
                /\ mpi.p[x].pc = "iter"
                /\ mpi.p[x].solveCommand = 1
                /\ mpi.ops[mpi.p[x].k].what = "globalMin")
                  => mpi.p[x].threshold = MPI_MIN(mpi.ops[mpi.p[x].k].val)
    ELSE TRUE

\* two ranks of MPISolver, none solved: rank 0 is still in the all-reduce,
\* rank 1 is in the next iteration with the minimum of the twelve values as
\* its threshold
C28_Witness ==
    /\ mpi.pc = "run"
    /\ ~mpi.open
    /\ mpi.size_ = 2
    /\ mpi.p[0].solveCommand = 1
    /\ mpi.p[0].pc = "globalMin"
    /\ mpi.p[1].pc = "iter"
    /\ mpi.p[1].k = mpi.p[0].k
    /\ mpi.p[1].threshold = MinOf({mpi.p[0].localMin, mpi.p[1].localMin})
    /\ mpi.p[1].threshold > heuristic(mpi.p[1].cube)
    /\ mpi.p[1].threshold < INT_MAX

(***************************************************************************)
(* C29: in MPISolver::solve and HybridSolver::solve all ranks call the     *)
(* same collectives: two ranks that returned from the same solve() have    *)
(* called the same number of collectives, and no rank is inside a          *)
(* collective of a solve() from which another rank returned before         *)
(* calling it.                                                             *)
(***************************************************************************)
MpiSolvePcs == {"iter", "globalMin", "rankWithBest", "solutionSize", "moveStr"}

C29_SameCollectives ==
    IF mpi.pc = "run"
    THEN \A r \in DOMAIN mpi.p, q \in DOMAIN mpi.p :
            \A s \in 1 .. Len(mpi.p[q].hist) :
               /\ s <= Len(mpi.p[r].hist) => mpi.p[r].hist[s].k = mpi.p[q].hist[s].k
               /\ (/\ s = Len(mpi.p[r].hist) + 1
                   /\ mpi.p[r].pc \in MpiSolvePcs \ {"iter"})
                     => mpi.p[r].k <= mpi.p[q].hist[s].k
    ELSE TRUE

(***************************************************************************)
(* C30: the four broadcasts of the root for a backend and the collectives  *)
(* of its solve() are the next collectives of every worker, in this order: *)
(* no process calls a collective other than the one the others call at     *)
(* the same position; a worker runs its s-th solve() with the command,     *)
(* the cube and the maxDepth of the root's s-th solve(), command 1 with    *)
(* MPISolver and command 2 with HybridSolver; a worker outside solve() is  *)
(* at the command broadcast.                                               *)
(***************************************************************************)
\* command, cube and maxDepth of the s-th solve() of rank x
MpiSolveArgs(x, s) ==
    IF s <= Len(mpi.p[x].hist)
    THEN [solveCommand |-> mpi.p[x].hist[s].solveCommand,
          cube |-> mpi.p[x].hist[s].cube, maxDepth |-> mpi.p[x].hist[s].maxDepth]
    ELSE [solveCommand |-> mpi.p[x].solveCommand,
          cube |-> mpi.p[x].cube, maxDepth |-> mpi.p[x].maxDepth]

C30_WorkersFollowRoot ==
    IF mpi.pc = "run"
    THEN /\ \A r \in DOMAIN mpi.p : mpi.p[r].pc # "mismatch"
         /\ \A w \in DOMAIN mpi.p \ {0} :
               /\ mpi.p[w].pc \in MpiSolvePcs \cup {"wait"}
               /\ \A s \in 1 .. 2 * MaxRequests :
                     MpiInSolve(w, s) =>
                        /\ MpiInSolve(0, s) \/ isSolved(mpi.p[0].cube)
                        /\ MpiSolveArgs(w, s).solveCommand = IF s % 2 = 1 THEN 1 ELSE 2
                        /\ MpiSolveArgs(w, s).cube = faces_
                        /\ MpiSolveArgs(w, s).maxDepth = mpi.p[0].maxDepth
                        /\ MpiInSolve(0, s) => MpiSolveArgs(w, s) = MpiSolveArgs(0, s)
    ELSE TRUE

(***************************************************************************)
(* C31: when the first-ply loop of an iteration has ended on a peer        *)
(* without a solution, the kernel has run exactly once for every index j   *)
(* with j mod size_ = rank_ and for no other index (OpenMPSolver: for      *)
(* every index), whatever the number of threads; no index is ever run      *)
(* twice in an iteration; the index sets of the size_ peers are disjoint   *)
(* and cover the twelve moves, and a rank >= 12 has none.                  *)
(***************************************************************************)
\* how often peer rank_ of size_ is to run each first-ply index
Share(rank_, size_) == [i \in Branches |-> IF i % size_ = rank_ THEN 1 ELSE 0]

\* every index is in the share of exactly one of the size_ peers
SharesPartition(size_) ==
    /\ \A i \in Branches :
          Cardinality({r \in 0 .. (size_ - 1) : Share(r, size_)[i] = 1}) = 1
    /\ \A r \in 0 .. (size_ - 1) :
          r >= Len(getBasicMoves) => Share(r, size_) = [i \in Branches |-> 0]

C31_EachMoveOnce ==
    /\ (AtJoin(omp) /\ ~omp.solutionFound_) => omp.ran = Share(0, 1)
    /\ omp.pc = "loop" => \A i \in Branches : omp.ran[i] <= 1
    /\ (AtJoin(hyb) /\ ~hyb.solutionFound_) => hyb.ran = Share(hyb.rank_, hyb.size_)
    /\ hyb.pc = "loop" =>
          /\ \A i \in Branches : hyb.ran[i] <= Share(hyb.rank_, hyb.size_)[i]
          /\ SharesPartition(hyb.size_)
    /\ (mpi.pc = "for" /\ mpi.i >= Len(getBasicMoves))
          => mpi.ran = Share(mpi.rank_, mpi.size_)
    /\ mpi.pc \in {"for", "allreduce"} =>
          /\ \A i \in Branches : mpi.ran[i] <= Share(mpi.rank_, mpi.size_)[i]
          /\ SharesPartition(mpi.size_)

\* rank 1 of 2 of the hybrid backend with two threads at the end of a loop
\* without a solution
C31_Witness ==
    /\ AtJoin(hyb)
    /\ ~hyb.solutionFound_
    /\ hyb.size_ = 2
    /\ hyb.rank_ = 1
    /\ hyb.numThreads_ = 2
    /\ hyb.localMin < INT_MAX
    /\ hyb.ran = [i \in Branches |-> i % 2]

(***************************************************************************)
(* C32: at the end of the parallel loop of a rank of HybridSolver::solve   *)
(* the localMin it puts into the MIN all-reduce is -1 exactly when a       *)
(* kernel call of one of its threads returned -1, and localSolution is     *)
(* then the path of one such call; otherwise localMin is the minimum of    *)
(* the values its kernel calls returned (INT_MAX when it ran none).  Once  *)
(* localMin has been -1 in an iteration it stays -1 in that iteration.     *)
(***************************************************************************)
C32_LocalMin ==
    /\ AtJoin(hyb) =>
          /\ hyb.localMin = -1 <=> \E b \in hyb.rets : b.temp = -1
          /\ hyb.localMin = -1 =>
                \E b \in hyb.rets : b.temp = -1 /\ b.localPath = hyb.localSolution
          /\ hyb.localMin # -1 =>
                hyb.localMin = MinOf({INT_MAX} \cup {b.temp : b \in hyb.rets})
    /\ (hyb.pc = "loop" /\ -1 \in hyb.written) => hyb.localMin = -1

\* localMin is -1 and a thread whose kernel returned a next threshold is in
\* the critical section of lines 153-160
C32_Witness ==
    /\ hyb.pc = "loop"
    /\ hyb.localMin = -1
    /\ \E t \in 1 .. hyb.numThreads_ :
          /\ hyb.th[t].pc = "critical_localMin"
          /\ hyb.th[t].temp \notin {-1, INT_MAX}

\* path = prefix \o (the rest of path)
IsPrefixOf(prefix, path) ==
    /\ Len(prefix) <= Len(path)
    /\ SubSeq(path, 1, Len(prefix)) = prefix

(* C33: when a call of a search kernel (SequentialSolver::search, IDAStarSolver::search, MPISolver::idaSearch, OpenMPSolver::idaSearchParallel, HybridSolver::idaSearchHybrid) returns anything other than SOLVED, the cube and the path stack are what they were at entry; when it returns SOLVED the moves it applied stay on the cube, which is solved, and the path stack is the entry path followed by exactly those moves (and is the stored solution of the sequential and IDA* solvers). *)
C33_KernelRestores ==
    IF slv.pc = "kernel"
    THEN /\ slv.ret # -1 => (slv.cube1 = slv.cube0 /\ slv.path1 = slv.path0)
         /\ slv.ret = -1 =>
               /\ isSolved(slv.cube1)
               /\ IsPrefixOf(slv.path0, slv.path1)
               /\ slv.cube1 = applyMoves(slv.cube0,
                                  SubSeq(slv.path1, Len(slv.path0) + 1, Len(slv.path1)))
               /\ slv.solution_ = slv.path1
    ELSE TRUE

C33_Witness ==
    /\ slv.pc = "kernel"
    /\ slv.backend = "idastar"
    /\ slv.ret \notin {-1, INT_MAX}
    /\ slv.g = 1
    /\ slv.nodes > 5
    /\ slv.cube1 = slv.cube0
    /\ slv.path1 = slv.path0

\* the f values of the nodes at which the pruned search under bound stops
\* because f > bound, in the subtree of the node (c, g) reached by lastMove:
\* a node with f <= bound that is not solved is expanded by every move that
\* isRedundantMove does not skip
RECURSIVE CutOffValues(_, _, _, _)
CutOffValues(c, g, bound, lastMove) ==
    LET f == g + heuristic(c)
    IN  IF f > bound THEN {f}
        ELSE IF isSolved(c) THEN {}
        ELSE UNION {CutOffValues(applyMove(c, getBasicMoves[k]), g + 1, bound,
                                 getBasicMoves[k]) :
                       k \in {j \in 1 .. Len(getBasicMoves) :
                                 ~isRedundantMove(lastMove, getBasicMoves[j])}}

ThresholdKernels == {"idastar", "mpi", "openmp", "hybrid"}

(* C34: a call of a threshold kernel with bound tau that finds no solution and is not cancelled returns the least f = g + heuristic over the nodes of the pruned subtree at which the search was cut off because f > tau, or INT_MAX when there is none; the value is strictly greater than tau, so the threshold of the driver's next iteration is strictly greater than that of the iteration before. *)
C34_NextThreshold ==
    IF slv.pc = "kernel"
    THEN /\ (slv.backend \in ThresholdKernels /\ slv.ret # -1 /\ slv.fuel = -1) =>
               /\ slv.ret = MinOf({INT_MAX} \cup
                                  CutOffValues(slv.cube0, slv.g, slv.bound, slv.lastMove))
               /\ slv.ret > slv.bound
         /\ slv.prev # -1 => slv.bound > slv.prev
    ELSE TRUE

C34_Witness ==
    /\ slv.pc = "kernel"
    /\ slv.backend = "idastar"
    /\ slv.prev # -1
    /\ slv.ret \notin {-1, INT_MAX}
    /\ slv.ret > slv.bound
    /\ Cardinality(CutOffValues(slv.cube0, slv.g, slv.bound, slv.lastMove)) > 1

\* the passes of the outer loop made so far went no deeper than `slack`
\* below the bound they searched under
DepthWithin(slack) ==
    (slv.pc \in {"loop", "returned"} /\ slv.searched # -1)
        => slv.deepest <= slv.searched + slack

(* C35 as stated: in every pass of the outer loop of the sequential, IDA* and OpenMP solvers the recursion depth (the g of a kernel call) never exceeds the bound of the pass.  Stated for the passes that find no solution, in which the kernel is called on every node of the pruned tree. *)
C35_DepthWithinBound ==
    (slv.pc \in {"loop", "returned"} /\ slv.exit # "found") => DepthWithin(0)

(* C35: every solve() call of the sequential, IDA* and OpenMP solvers returns, for every colouring of the 54 stickers, reachable or not, and every maxDepth: the g of a kernel call never exceeds the bound of its pass by more than one (a node with heuristic 0 that is not solved is expanded at g = bound; the sequential search never exceeds its bound), the bound strictly increases from pass to pass, and the loop is left because a solution was found, the bound exceeds maxDepth, no larger bound exists, or the wall-clock budget of the pass has expired. *)
C35_Terminates ==
    /\ [](DepthWithin(1))
    /\ []((slv.pc \in {"loop", "returned"} /\ slv.backend = "sequential") => DepthWithin(0))
    /\ []((slv.pc = "loop" /\ slv.searched # -1) =>
             (slv.bound > slv.searched /\ slv.searched <= slv.maxDepth))
    /\ [](slv.pc = "returned" =>
             /\ slv.exit \in {"solved", "found", "bound", "none", "time"}
             /\ slv.exit = "bound" => slv.bound > slv.maxDepth
             /\ slv.exit = "found" => isSolved(applyMoves(slv.input, slv.ret)))
    /\ (slv.pc = "loop" ~> slv.pc = "returned")

C35_Witness ==
    /\ slv.pc = "returned"
    /\ slv.backend = "idastar"
    /\ heuristic(slv.input) = 0
    /\ slv.exit = "bound"
    /\ slv.iterations > 1
    /\ slv.searched > 0

\* the least bound under which solve() of the backend searches at all
FirstBound(r) == IF r.backend = "sequential" THEN 1 ELSE heuristic(r.input)

(* C36: a path returned by solve() of any backend has at most maxDepth moves; solve() called on an unsolved cube with maxDepth smaller than the initial heuristic value (smaller than 1 for the sequential backend) returns the empty path. *)
C36_PathWithinMaxDepth ==
    \A r \in Calls :
        /\ Len(r.ret) <= r.maxDepth
        /\ (~isSolved(r.input) /\ r.maxDepth < FirstBound(r)) => r.ret = <<>>

C36_Witness ==
    /\ seq.pc = "done"
    /\ Len(seq.ret) = seq.maxDepth
    /\ slv.pc = "done"
    /\ slv.backend = "hybrid"
    /\ slv.maxDepth > 1
    /\ Len(slv.ret) = slv.maxDepth

\* the 12 quarter-turn tokens: a face letter, alone or followed by a prime
QuarterTurnTokens ==
    {<<f>> : f \in FaceLetters} \cup {<<f, "'">> : f \in FaceLetters}

\* the axis of the face a move turns: U/D, L/R, F/B
Axis(move) ==
    CASE move[1] \in {"U", "D"} -> "UD"
      [] move[1] \in {"L", "R"} -> "LR"
      [] move[1] \in {"F", "B"} -> "FB"

(* C37: a path returned by solve() of any backend is made of the 12 quarter-turn tokens only, and no move of it is on the face of the move before it or on the opposite face; with the empty last move of the root ply no move is skipped, and after every move exactly the moves on its face and the opposite face are skipped. *)
C37_PathRespectsPruning ==
    /\ \A r \in Calls :
          /\ \A k \in 1 .. Len(r.ret) : r.ret[k] \in QuarterTurnTokens
          /\ \A k \in 1 .. (Len(r.ret) - 1) : Axis(r.ret[k]) # Axis(r.ret[k + 1])
    /\ \A m \in QuarterTurnTokens :
          /\ ~isRedundantMove(<<>>, m)
          /\ \A last \in QuarterTurnTokens :
                isRedundantMove(last, m) <=> Axis(last) = Axis(m)

C37_Witness ==
    /\ seq.pc = "done"
    /\ Len(seq.ret) = 2
    /\ slv.pc = "done"
    /\ slv.backend = "mpi"
    /\ slv.size_ = MaxRanks
    /\ Len(slv.ret) = 2
    /\ Axis(slv.ret[1]) # Axis(slv.ret[2])

(* C38: solve() of the OpenMP, MPI and hybrid solvers leaves the caller's cube as it was; solve() of the sequential and the IDA* solver leaves the caller's cube as it was whenever it returns the empty path. *)
C38_CallerCubeKept ==
    \A r \in Calls :
        /\ r.backend \in {"openmp", "mpi", "hybrid"} => r.cube = r.input
        /\ (r.backend \in {"sequential", "idastar"} /\ r.ret = <<>>) => r.cube = r.input

C38_Witness ==
    /\ seq.pc = "done"
    /\ seq.ret = <<>>
    /\ ~isSolved(seq.input)
    /\ seq.nodesExplored_ > 100
    /\ seq.cube = seq.input
    /\ slv.pc = "done"
    /\ slv.backend = "idastar"
    /\ slv.ret = <<>>
    /\ slv.nodesExplored_ > 100

(* C39: in the response to /cube/solve, the entry of every backend whose returned path solves the captured cube state, and which did not time out, carries success true; this includes the already-solved captured state, for which the returned path is empty. *)
C39_SuccessWhenSolved ==
    IF http.pc = "done"
    THEN http.req = "solve" =>
            \A i \in 1 .. Len(http.results) :
                (/\ isSolved(applyMoves(faces_, http.results[i].solution))
                 /\ ~http.results[i].timeout)
                    => http.json[i].success
    ELSE TRUE

====
